---------------------------- MODULE Spec2Model ----------------------------
(***************************************************************************)
(* A model of server.js of mcp-desktop-pro: the tool handlers              *)
(* (capabilityImplementations) over the window directory, the pointer,     *)
(* the clock and the window capture metadata store.                        *)
(*                                                                         *)
(* Every handler is an operator  h(st, params, env)  that returns          *)
(* [st |-> the state it leaves, ret |-> the value it returns].  st holds   *)
(* what the handlers write (the metadata store, the pointer, the list of   *)
(* side effects performed so far); env is the environment's answer to the  *)
(* external calls the handler makes (window activation, window listing,    *)
(* screen grab, encoder).  The window directory and the clock are read     *)
(* where the code reads them.                                              *)
(*                                                                         *)
(* Math.round(n / d) is modelled on exact rationals (round half up).       *)
(***************************************************************************)
EXTENDS Integers, Sequences, FiniteSets, TLC

VARIABLES
    windows,            \* the OS window directory: what activeWin.getOpenWindows() returns
    now,                \* Date.now(), in milliseconds
    store,              \* global.windowCaptureMetadata: window id -> record
    lastScreenCapture,  \* global.lastScreenCapture
    screenshots,        \* the keys of the screenshots map
    pointer,            \* the position of the OS pointer (robot.moveMouse)
    call,               \* the last tool invocation: its name and params
    ret,                \* the value the last invocation returned
    log,                \* the side effects of the last invocation, in order
    resolved,           \* the last coordinate conversion: record found, record used, origin
    batch,              \* multiple_desktop_actions: the loop's variables
    fn,                 \* the scale computation taken alone: its arguments and results
    inflight            \* the invocations in progress, each suspended at one of its awaits

vars == <<windows, now, store, lastScreenCapture, screenshots, pointer,
          call, ret, log, resolved, batch, fn, inflight>>

-----------------------------------------------------------------------------
(* Bounds of the model *)

MaxTicks == 2        \* clock steps in a behaviour
MaxSteps == 3        \* actions in one multiple_desktop_actions request
MaxSize == 6         \* largest side of a size given to the scale taken alone
MaxDen == 3          \* largest denominator of a downscale fraction

-----------------------------------------------------------------------------
(* Values *)

NoWin == 0                       \* windowId absent (undefined)
WinIds == {1, 2}                 \* ids the window directory may hold
NoPoint == <<>>                  \* x, y absent

Size(w, h) == [width |-> w, height |-> h]
Rect(x, y, w, h) == [x |-> x, y |-> y, width |-> w, height |-> h]

\* robot.getScreenSize(): the logical size of the primary display
screenSize == Size(1440, 900)

\* sizes of the image screenshot() returns: standard and Retina
PhysSizes == {Size(1440, 900), Size(2880, 1800)}

\* Buffer lengths the encoder may produce: at and around the cap
ByteSizes == {40 * 1024, 300 * 1024, 300 * 1024 + 1}

Min(a, b) == IF a < b THEN a ELSE b
Max(a, b) == IF a > b THEN a ELSE b

\* Math.round(n / d) for d > 0: the nearest integer, halves towards +infinity
Round(n, d) == (2 * n + d) \div (2 * d)

Range(s) == {s[i] : i \in DOMAIN s}

\* one side effect: name, a string argument, two integer arguments
Ev(name, s, a, b) == [ev |-> name, s |-> s, a |-> a, b |-> b]

\* an error message: its fixed text and what the code interpolates into it
Err(msg, s, nums) == [msg |-> msg, s |-> s, nums |-> nums]

Fail(e) == [success |-> FALSE, error |-> e]
Thrown == Err("TypeError", "", <<>>)

\* a handler called without a parameter object, or with null for it
Undefined == [absent |-> "undefined"]
Null == [absent |-> "null"]
Absent(params) == "absent" \in DOMAIN params

\* the truthiness of r.success, as in  if (!r.success)
Truthy(r) == "success" \in DOMAIN r /\ r.success
\* r.success === false
IsFalse(r) == "success" \in DOMAIN r /\ r.success = FALSE

Emit(st, e) == [st EXCEPT !.log = Append(@, e)]
Return(st, r) == [st |-> st, ret |-> r]

\* the handler does not return: the exception e leaves it
Throw(st, e) == [st |-> st, ret |-> [thrown |-> e]]
\* catch (error) { return {success: false, error: error.message} }
Caught(st) == Return(st, Fail(Thrown))

-----------------------------------------------------------------------------
(* The window directory *)

\* String.prototype.toLowerCase on the characters titles are made of
toLowerCase(s) ==
    [i \in DOMAIN s |->
        CASE s[i] = "C" -> "c" [] s[i] = "A" -> "a" [] s[i] = "L" -> "l"
          [] OTHER -> s[i]]

\* String.prototype.includes
includes(s, q) ==
    \E i \in 0..(Len(s) - Len(q)) : SubSeq(s, i + 1, i + Len(q)) = q

\* the array getOpenWindows() resolves to, in id order
OpenIds == {w \in WinIds : windows[w].open}

\* windows.find(w => w && w.id === windowId): the id found, or NoWin
FindById(windowId) == IF windowId \in OpenIds THEN windowId ELSE NoWin

\* windows.find(w => w && w.title && w.title.toLowerCase().includes(q.toLowerCase())):
\* the first match in the array
FindByTitle(windowTitle) ==
    LET hits == {w \in OpenIds : /\ windows[w].title # <<>>
                                 /\ includes(toLowerCase(windows[w].title),
                                             toLowerCase(windowTitle))}
    IN IF hits = {} THEN NoWin ELSE CHOOSE w \in hits : \A v \in hits : w <= v

\* await activeWin.getOpenWindows(): one more call; it fails when the
\* environment says this call does
ListCall(st) == [st EXCEPT !.nlist = @ + 1]
ListFails(st, env) == env.listFail = st.nlist + 1

\* windowHelpers.focusWindow(targetWindow): activates the window's
\* application through the platform's window manager
focusWindow(st, w, env) ==
    LET ok == env.focusFail # st.nfocus + 1
        st1 == Emit([st EXCEPT !.nfocus = @ + 1], Ev("focus", "", w, IF ok THEN 1 ELSE 0))
    IN Return(st1, IF ok THEN [success |-> TRUE]
                         ELSE Fail(Err("Failed to focus window", "", <<>>)))

focus_window(st, params, env) ==
    LET st1 == ListCall(st)
        targetWindow == FindById(params.windowId)
    IN IF Absent(params)
         THEN Caught(st)
       ELSE IF ListFails(st, env)
         THEN Return(st1, Fail(Err("Failed to get window list", "", <<>>)))
       ELSE IF targetWindow = NoWin
         THEN Return(st1, Fail(Err("Window not found with ID", "", <<params.windowId>>)))
       ELSE LET focusResult == focusWindow(st1, targetWindow, env)
            IN IF focusResult.ret.success
                 THEN Return(focusResult.st,
                             [success |-> TRUE, message |-> "focused successfully"])
                 ELSE focusResult

-----------------------------------------------------------------------------
(* Image pipeline *)

\* isHighDPI = scaleX > 1.5 || scaleY > 1.5, scale = metadata / screenSize
isHighDPI(metadata) ==
    \/ 2 * metadata.width > 3 * screenSize.width
    \/ 2 * metadata.height > 3 * screenSize.height

\* a downscale target that rounds the scaled size up to the next integer
targetRoundedUp(current, num, den, cap) == Min((current * num) \div den + 1, cap)

\* Math.min(Math.round(current * fraction), cap), the fraction being num / den
targetDownscaleSize(current, num, den, cap) == Min(Round(current * num, den), cap)

\* a target of half the current size, whatever the cap
TargetSizeUncapped(current, cap) == Round(current, 2)

\* Math.min(Math.round(current * 0.5), cap)
TargetSize(current, cap) == targetDownscaleSize(current, 1, 2, cap)

\* a resize that stretches the image to the target
FitFill(cw, ch, tw, th) == Size(tw, th)

\* sharp's resize(tw, th, {fit: 'inside', withoutEnlargement: true}) of a
\* cw x ch image: the largest size of the same aspect ratio within tw x th,
\* never larger than the input, never below one pixel
FitInside(cw, ch, tw, th) ==
    IF cw <= tw /\ ch <= th THEN Size(cw, ch)
    ELSE IF cw * th > ch * tw
      THEN Size(tw, Max(1, Round(ch * tw, cw)))
      ELSE Size(Max(1, Round(cw * th, ch)), th)

\* if (targetWidth < currentWidth || targetHeight < currentHeight)
WillResize(cw, ch, tw, th) == tw < cw \/ th < ch

\* the size of the encoded image (finalMeta): the crop (cw x ch), resized to
\* fit inside the target computed from the current size (mw x mh) when the
\* target is smaller than that
AiSize(cw, ch, mw, mh) ==
    LET targetWidth == TargetSize(mw, 1280)
        targetHeight == TargetSize(mh, 720)
    IN IF WillResize(mw, mh, targetWidth, targetHeight)
         THEN FitInside(cw, ch, targetWidth, targetHeight)
         ELSE Size(cw, ch)

\* await screenshot({format: 'jpg'}): one more grab
GrabCall(st) == Emit([st EXCEPT !.ngrab = @ + 1], Ev("grab", "", 0, 0))
GrabFails(st, env) == env.grabFail = st.ngrab + 1

\* a size test with the cap a kilobyte higher
TooLargeAbove301(bytes) == bytes > 301 * 1024

\* sizeKB > 300 with sizeKB = img.length / 1024
TooLarge(bytes) == bytes > 300 * 1024

\* sizeKB.toFixed(1): the size in tenths of a kilobyte, to the nearest
toFixed1(bytes) == Round(bytes * 10, 1024)

\* await sharpInstance.webp(...).toBuffer(): the buffer, of img.length bytes
ToBuffer(st, env) == Emit(st, Ev("toBuffer", "", env.bytes, 0))

\* the location named when the origin is off the primary display
DisplayLocation(bounds) ==
    IF bounds.x < 0 THEN "secondary-left"
    ELSE IF bounds.x >= screenSize.width THEN "secondary-right"
    ELSE IF bounds.y < 0 THEN "secondary-top"
    ELSE IF bounds.y >= screenSize.height THEN "secondary-bottom"
    ELSE "secondary-unknown"

\* a display test that lets every window through
IsOnSomeDisplay(bounds) == bounds.width > 0

IsOnPrimaryDisplay(bounds) ==
    /\ bounds.x >= 0
    /\ bounds.y >= 0
    /\ bounds.x < screenSize.width
    /\ bounds.y < screenSize.height

\* the rectangle cut out of the screenshot for a window
ScaledRect(bounds, metadata) ==
    IF isHighDPI(metadata)
      THEN [x1 |-> Round(bounds.x * metadata.width, screenSize.width),
            y1 |-> Round(bounds.y * metadata.height, screenSize.height),
            x2 |-> Round((bounds.x + bounds.width) * metadata.width, screenSize.width),
            y2 |-> Round((bounds.y + bounds.height) * metadata.height, screenSize.height)]
      ELSE [x1 |-> bounds.x, y1 |-> bounds.y,
            x2 |-> bounds.x + bounds.width, y2 |-> bounds.y + bounds.height]

\* a validation that looks at the rectangle's origin alone
OutsideImageAtOrigin(r, metadata) == r.x1 < 0 \/ r.y1 < 0

\* scaledX1 < 0 || scaledY1 < 0 || scaledX2 > metadata.width ||
\* scaledY2 > metadata.height
OutsideImage(r, metadata) ==
    r.x1 < 0 \/ r.y1 < 0 \/ r.x2 > metadata.width \/ r.y2 > metadata.height

\* a write that replaces the whole store by the one record
PutAlone(map, k, v) == [j \in {k} |-> v]

\* a put that keeps the record the map already has for the key
PutIfAbsent(map, k, v) ==
    IF k \in DOMAIN map THEN map
    ELSE [j \in DOMAIN map \cup {k} |-> IF j = k THEN v ELSE map[j]]

\* the put of a record into a map: map[k] = v
Put(map, k, v) == [j \in DOMAIN map \cup {k} |-> IF j = k THEN v ELSE map[j]]

\* a capture that writes its record as soon as it knows the bounds, before
\* the grab
CaptureStoredEarly(st, id, bounds, env) ==
    LET record == [windowId |-> id,
                   originalLogicalSize |-> Size(bounds.width, bounds.height),
                   originalPhysicalSize |-> Size(bounds.width, bounds.height),
                   aiImageSize |-> Size(bounds.width, bounds.height),
                   timestamp |-> now]
        st1 == [GrabCall(st) EXCEPT !.store = Put(@, id, record)]
    IN IF GrabFails(st, env)
         THEN Return(st1, Fail(Err("Screenshot failed", "", <<>>)))
         ELSE Return(st1, [content |-> [original |-> Size(bounds.width, bounds.height),
                                        image |-> Size(bounds.width, bounds.height),
                                        bytes |-> env.bytes],
                           isError |-> FALSE])

\* window_capture from the grab on: crop, resize, encode, size check,
\* metadata write
CaptureGrabbed(st, id, bounds, env) ==
    LET st1 == GrabCall(st)
        metadata == env.phys
        r == ScaledRect(bounds, metadata)
        width == r.x2 - r.x1
        height == r.y2 - r.y1
        ai == AiSize(width, height, width, height)
        st2 == Emit(st1, Ev("crop", "", width, height))
        st3 == IF WillResize(width, height, TargetSize(width, 1280), TargetSize(height, 720))
                 THEN Emit(st2, Ev("resize", "", TargetSize(width, 1280),
                                   TargetSize(height, 720)))
                 ELSE st2
        st3e == Emit(st3, Ev("encode", "", ai.width, ai.height))
        st4 == ToBuffer(st3e, env)
        windowCaptureMetadata ==
            [windowId |-> id,
             originalLogicalSize |-> Size(bounds.width, bounds.height),
             originalPhysicalSize |-> Size(width, height),
             aiImageSize |-> ai,
             timestamp |-> now]
        st5 == [st4 EXCEPT !.store = Put(@, id, windowCaptureMetadata)]
    IN IF GrabFails(st, env)
         THEN Return(st1, Fail(Err("Screenshot failed", "", <<>>)))
       ELSE IF width <= 0 \/ height <= 0
         THEN Return(st1, Fail(Err("Invalid window bounds: width and height must be positive",
                                   "", <<>>)))
       ELSE IF OutsideImage(r, metadata)
         THEN Return(st1, Fail(Err("Window bounds exceed screenshot dimensions", "",
                                   <<r.x1, r.y1, r.x2, r.y2, metadata.width, metadata.height>>)))
       ELSE IF env.encodeFails
         THEN Return(st3e, Fail(Err("WebP conversion failed", "", <<>>)))
       ELSE IF TooLarge(env.bytes)
         THEN Return(st4, Fail(Err("Window capture too large (max 300KB)", "",
                                   <<toFixed1(env.bytes)>>)))
       ELSE Return(st5, [content |-> [original |-> Size(bounds.width, bounds.height),
                                      image |-> ai, bytes |-> env.bytes],
                         isError |-> FALSE])

\* window_capture once the window has the focus: the wait, the checks of
\* the bounds, the capture
WindowCaptureFocused(st, targetWindow, env) ==
    LET bounds == windows[targetWindow].bounds
        st2 == Emit(st, Ev("delay", "", 500, 0))
    IN IF bounds.width <= 0 \/ bounds.height <= 0
         THEN Return(st2, Fail(Err("Invalid window dimensions", "",
                                   <<bounds.width, bounds.height>>)))
       ELSE IF ~IsOnPrimaryDisplay(bounds)
         THEN Return(st2, Fail(Err("Window capture on secondary displays is not yet implemented",
                                   DisplayLocation(bounds), <<>>)))
       ELSE CaptureGrabbed(st2, targetWindow, bounds, env)

\* a window_capture that goes on whatever the focus helper replied
WindowCaptureUnfocused(focusResult, targetWindow, env) ==
    WindowCaptureFocused(focusResult.st, targetWindow, env)

\* if (!focusResult.success) return {success: false, error}
WindowCaptureAfterFocus(focusResult, targetWindow, env) ==
    IF ~focusResult.ret.success
      THEN Return(focusResult.st, Fail(Err("Failed to focus window", "", <<>>)))
      ELSE WindowCaptureFocused(focusResult.st, targetWindow, env)

window_capture(st, params, env) ==
    LET st1 == ListCall(st)
        targetWindow == IF params.windowId # NoWin THEN FindById(params.windowId)
                        ELSE FindByTitle(params.windowTitle)
    IN IF Absent(params)
         THEN Caught(st)
       ELSE IF ListFails(st, env)
         THEN Return(st1, Fail(Err("Failed to get window list", "", <<>>)))
       ELSE IF params.windowId = NoWin /\ params.windowTitle = <<>>
         THEN Return(st1, Fail(Err("Either windowId or windowTitle must be provided", "", <<>>)))
       ELSE IF targetWindow = NoWin
         THEN Return(st1, Fail(Err("Window not found", "", <<params.windowId>>)))
       ELSE WindowCaptureAfterFocus(focusWindow(st1, targetWindow, env), targetWindow, env)

screen_capture(st, params0, env) ==
    LET st1 == GrabCall(st)
        metadata == env.phys
        \* params = {}: the default when no parameter object is given
        params == IF params0 = Undefined THEN <<>> ELSE params0
        hasRegion == params # <<>>
        x1 == IF isHighDPI(metadata)
                THEN Round(params.x1 * metadata.width, screenSize.width) ELSE params.x1
        y1 == IF isHighDPI(metadata)
                THEN Round(params.y1 * metadata.height, screenSize.height) ELSE params.y1
        x2 == IF isHighDPI(metadata)
                THEN Round(params.x2 * metadata.width, screenSize.width) ELSE params.x2
        y2 == IF isHighDPI(metadata)
                THEN Round(params.y2 * metadata.height, screenSize.height) ELSE params.y2
        width == IF hasRegion THEN x2 - x1 ELSE metadata.width
        height == IF hasRegion THEN y2 - y1 ELSE metadata.height
        \* sharpInstance.metadata() reports the input image, cropped or not
        currentWidth == metadata.width
        currentHeight == metadata.height
        targetWidth == TargetSize(currentWidth, 1280)
        targetHeight == TargetSize(currentHeight, 720)
        ai == AiSize(width, height, currentWidth, currentHeight)
        st2 == IF hasRegion THEN Emit(st1, Ev("crop", "", width, height)) ELSE st1
        st3 == IF WillResize(currentWidth, currentHeight, targetWidth, targetHeight)
                 THEN Emit(st2, Ev("resize", "", targetWidth, targetHeight)) ELSE st2
        st4 == ToBuffer(Emit(st3, Ev("encode", "", ai.width, ai.height)), env)
        screenCaptureMetadata ==
            [originalSize |-> metadata,
             logicalScreenSize |-> screenSize,
             aiImageSize |-> ai,
             timestamp |-> now]
        st5 == [st4 EXCEPT !.screenshots = @ \cup {now \div 1000},
                           !.lastScreenCapture = screenCaptureMetadata]
    IN IF GrabFails(st, env)
         THEN Return(st1, Fail(Err("Screenshot failed", "", <<>>)))
       ELSE IF params0 = Null
         THEN Caught(st1)
       ELSE IF hasRegion /\ (width <= 0 \/ height <= 0)
         THEN Return(st1, Fail(Err("Invalid coordinates", "", <<>>)))
       ELSE IF hasRegion /\ (x1 < 0 \/ y1 < 0 \/ x2 > metadata.width \/ y2 > metadata.height)
         THEN Return(st2, Fail(Err("extract_area: bad extract area", "", <<>>)))
       ELSE IF env.encodeFails
         THEN Return(st3, Fail(Err("WebP conversion failed", "", <<>>)))
       ELSE IF TooLarge(env.bytes)
         THEN Return(st4, Fail(Err("Screenshot too large (max 300KB)", "",
                                   <<toFixed1(env.bytes)>>)))
       ELSE Return(st5, [content |-> [original |-> screenSize, image |-> ai,
                                      bytes |-> env.bytes],
                         isError |-> FALSE])

-----------------------------------------------------------------------------
(* Mouse *)

\* age > 5 * 60 * 1000
TTL == 5 * 60 * 1000
\* a staleness test that already drops a record at the age of the lifetime
IsStaleEarly(metadata) == now - metadata.timestamp >= TTL
IsStale(metadata) == now - metadata.timestamp > TTL

\* basic metadata assuming no AI image scaling (1:1 coordinate mapping)
BasicMetadata(windowId, bounds) ==
    [windowId |-> windowId,
     originalLogicalSize |-> Size(bounds.width, bounds.height),
     aiImageSize |-> Size(bounds.width, bounds.height),
     timestamp |-> now]

\* a scaling that truncates where the code rounds
ScaleCoordFloor(v, logical, ai) == (v * logical) \div ai

\* scaledX = Math.round(x * scaleX), scaleX = originalLogicalSize / aiImageSize
ScaleCoord(v, logical, ai) == Round(v * logical, ai)

\* a transformation that leaves out the window's origin
TransformUnanchored(x, y, metadata, bounds) ==
    <<ScaleCoord(x, metadata.originalLogicalSize.width, metadata.aiImageSize.width),
      ScaleCoord(y, metadata.originalLogicalSize.height, metadata.aiImageSize.height)>>

\* the final screen coordinates of AI point (x, y) in a window
Transform(x, y, metadata, bounds) ==
    <<bounds.x + ScaleCoord(x, metadata.originalLogicalSize.width,
                            metadata.aiImageSize.width),
      bounds.y + ScaleCoord(y, metadata.originalLogicalSize.height,
                            metadata.aiImageSize.height)>>

\* the debug branch of mouse_move after its screen capture: the reply
\* carries the annotated screenshot when there is one
MouseMoveAnnotated(screenshot, env) ==
    IF "isError" \in DOMAIN screenshot.ret /\ screenshot.ret.isError = FALSE
      THEN IF ListFails(screenshot.st, env)
             THEN Return(ListCall(screenshot.st), Fail(Thrown))
             ELSE Return(ListCall(screenshot.st),
                         [content |-> [original |-> screenSize,
                                       image |-> screenshot.ret.content.image,
                                       bytes |-> 0],
                          isError |-> FALSE])
      ELSE Return(screenshot.st, [success |-> TRUE])

\* the debug branch of mouse_move, after the pointer has moved: a capture
\* of the window, then a capture of the screen
MouseMoveDebug(st, params, env) ==
    MouseMoveAnnotated(
        screen_capture(window_capture(st, [windowId |-> params.windowId,
                                           windowTitle |-> <<>>], env).st,
                       <<>>, env),
        env)

\* no record in the metadata store
NoRecord == [windowId |-> NoWin]

\* mouse_move from the coordinate conversion on, with the metadata chosen;
\* found is what the store held for the window
MouseMoveResolved(st, params, metadata, found, env) ==
    LET st1 == ListCall(st)
        targetWindow == FindById(params.windowId)
        bounds == windows[targetWindow].bounds
        to == Transform(params.x, params.y, metadata, bounds)
        st2 == [Emit(st1, Ev("moveMouse", "", to[1], to[2]))
                  EXCEPT !.pointer = to,
                         !.resolved = [metadata |-> metadata,
                                       found |-> found,
                                       origin |-> <<bounds.x, bounds.y>>,
                                       point |-> <<params.x, params.y>>]]
    IN IF ListFails(st, env)
         THEN Return(st1, Fail(Thrown))
       ELSE IF targetWindow = NoWin
         THEN Return(st1, Fail(Err("Window not found for coordinate conversion with ID", "",
                                   <<params.windowId>>)))
       ELSE IF params.debug
         THEN MouseMoveDebug(st2, params, env)
       ELSE Return(st2, [success |-> TRUE])

\* a fallback that uses the basic metadata without storing it
MouseMoveBasicUnstored(st, params, found, env) ==
    IF FindById(params.windowId) = NoWin
      THEN Return(ListCall(st), Fail(Err("Window not found with ID", "",
                                         <<params.windowId>>)))
      ELSE MouseMoveResolved(ListCall(st), params,
                             BasicMetadata(params.windowId,
                                           windows[params.windowId].bounds),
                             found, env)

\* mouse_move where it creates or refreshes basic metadata
MouseMoveBasic(st, params, found, env) ==
    LET st1 == ListCall(st)
        targetWindow == FindById(params.windowId)
        metadata == BasicMetadata(params.windowId, windows[targetWindow].bounds)
        st2 == [st1 EXCEPT !.store = Put(@, params.windowId, metadata)]
    IN IF ListFails(st, env)
         THEN Return(st1, Fail(Thrown))
       ELSE IF targetWindow = NoWin
         THEN Return(st1, Fail(Err("Window not found with ID", "", <<params.windowId>>)))
       ELSE MouseMoveResolved(st2, params, metadata, found, env)

\* mouse_move once the window has the focus
MouseMoveFocused(st, params, env) ==
    LET windowId == params.windowId
    IN IF windowId = NoWin
         THEN Return(st, Fail(Err("windowId is a required parameter for mouse_move", "", <<>>)))
       ELSE IF windowId \notin DOMAIN st.store
         THEN MouseMoveBasic(st, params, NoRecord, env)
       ELSE IF IsStale(st.store[windowId])
         THEN MouseMoveBasic(st, params, st.store[windowId], env)
       ELSE MouseMoveResolved(st, params, st.store[windowId], st.store[windowId], env)

\* a mouse_move that goes on whatever focus_window replied
MouseMoveUnfocused(focusResult, params, env) ==
    MouseMoveFocused(Emit(focusResult.st, Ev("delay", "", 300, 0)), params, env)

\* mouse_move after its call of focus_window
MouseMoveAfterFocus(focusResult, params, env) ==
    IF ~Truthy(focusResult.ret)
      THEN focusResult
      ELSE MouseMoveFocused(Emit(focusResult.st, Ev("delay", "", 300, 0)), params, env)

\* params is destructured in the try block and once more in the catch
\* block: without a parameter object the second TypeError leaves the handler
mouse_move(st, params, env) ==
    IF Absent(params)
      THEN Throw(st, Thrown)
      ELSE MouseMoveAfterFocus(focus_window(st, [windowId |-> params.windowId], env),
                               params, env)

\* a click that leaves the button down after the hold
PerformClickHeld(st, params) ==
    IF params.pressLength > 0
      THEN Emit(Emit(st, Ev("mouseToggle", params.button, 1, 0)),
                Ev("delay", "", params.pressLength, 0))
      ELSE Emit(st, Ev("mouseClick", params.button, IF params.double THEN 1 ELSE 0, 0))

\* the click itself: hold for pressLength, or a quick single or double click
PerformClick(st, params) ==
    IF params.pressLength > 0
      THEN Emit(Emit(Emit(st, Ev("mouseToggle", params.button, 1, 0)),
                     Ev("delay", "", params.pressLength, 0)),
                Ev("mouseToggle", params.button, 0, 0))
      ELSE Emit(st, Ev("mouseClick", params.button, IF params.double THEN 1 ELSE 0, 0))

\* mouse_click after its call of mouse_move
MouseClickMoved(moveResult, params) ==
    IF ~Truthy(moveResult.ret)
      THEN moveResult
      ELSE Return(PerformClick(Emit(moveResult.st, Ev("delay", "", 50, 0)), params),
                  [success |-> TRUE])

\* mouse_click after the optional focus
MouseClickFocused(st, params, env) ==
    IF params.point = NoPoint
      THEN Return(PerformClick(st, params), [success |-> TRUE])
      ELSE MouseClickMoved(mouse_move(st, [x |-> params.point[1],
                                           y |-> params.point[2],
                                           windowId |-> params.windowId,
                                           debug |-> params.debug], env),
                           params)

\* mouse_click after its call of focus_window
MouseClickAfterFocus(focusResult, params, env) ==
    IF ~Truthy(focusResult.ret)
      THEN focusResult
      ELSE MouseClickFocused(Emit(focusResult.st, Ev("delay", "", 300, 0)), params, env)

\* mouse_click once params is destructured
MouseClickDestructured(st, params, env) ==
    IF params.pressLength < 0 \/ params.pressLength > 5000
      THEN Return(st, Fail(Err("pressLength must be between 0 and 5000 milliseconds",
                               "", <<>>)))
    ELSE IF params.windowId = NoWin
      THEN MouseClickFocused(st, params, env)
      ELSE MouseClickAfterFocus(focus_window(st, [windowId |-> params.windowId], env),
                                params, env)

\* button = 'left', double = false, pressLength = 0, debug = false
ClickDefaults ==
    [button |-> "left", double |-> FALSE, windowId |-> NoWin, pressLength |-> 0,
     point |-> NoPoint, debug |-> FALSE]

\* params = {} when no parameter object is given; null is destructured in
\* the try block and once more in the catch block
mouse_click(st, params, env) ==
    IF params = Null
      THEN Throw(st, Thrown)
      ELSE MouseClickDestructured(st, IF params = Undefined THEN ClickDefaults
                                      ELSE params, env)

-----------------------------------------------------------------------------
(* Keyboard and window placement *)

keyboard_type(st, params, env) ==
    LET focusResult == focus_window(st, [windowId |-> params.windowId], env)
        st1 == Emit(focusResult.st, Ev("delay", "", 300, 0))
    IN IF Absent(params)
         THEN Caught(st)
       ELSE IF params.windowId = NoWin
         THEN Return(Emit(st, Ev("typeString", params.text, 0, 0)), [success |-> TRUE])
       ELSE IF ~Truthy(focusResult.ret)
         THEN focusResult
       ELSE Return(Emit(st1, Ev("typeString", params.text, 0, 0)), [success |-> TRUE])

\* the key events of keyboard_press: hold for pressLength, or a quick tap
PerformPress(st, params) ==
    IF params.pressLength > 0
      THEN Emit(Emit(Emit(st, Ev("keyToggle", params.key, 1, Len(params.modifiers))),
                     Ev("delay", "", params.pressLength, 0)),
                Ev("keyToggle", params.key, 0, 0))
    ELSE IF params.modifiers = <<>>
      THEN Emit(st, Ev("keyTap", params.key, 0, 0))
      ELSE Emit(Emit(st, Ev("keyToggle", params.key, 1, Len(params.modifiers))),
                Ev("keyToggle", params.key, 0, 0))

\* keyboard_press once pressLength is valid: the optional focus, the keys
KeyboardPressValid(st, params, env) ==
    LET focusResult == focus_window(st, [windowId |-> params.windowId], env)
        st1 == Emit(focusResult.st, Ev("delay", "", 300, 0))
    IN IF params.windowId = NoWin
         THEN Return(PerformPress(st, params), [success |-> TRUE])
       ELSE IF ~Truthy(focusResult.ret)
         THEN focusResult
       ELSE Return(PerformPress(st1, params), [success |-> TRUE])

\* a keyboard_press that takes every pressLength
KeyboardPressUnvalidated(st, params, env) == KeyboardPressValid(st, params, env)

keyboard_press(st, params, env) ==
    IF Absent(params)
      THEN Caught(st)
    ELSE IF params.pressLength < 0 \/ params.pressLength > 5000
      THEN Return(st, Fail(Err("pressLength must be between 0 and 5000 milliseconds",
                               "", <<>>)))
      ELSE KeyboardPressValid(st, params, env)

\* the position and size move_window_to_primary_screen asks for
NewBounds(bounds, preserveSize) ==
    IF preserveSize
      THEN LET newX == Max(0, Min(50, screenSize.width - bounds.width))
               newY == Max(0, Min(50, screenSize.height - bounds.height))
           IN Rect(newX, newY,
                   Min(bounds.width, screenSize.width - newX),
                   Min(bounds.height, screenSize.height - newY))
      ELSE Rect(100, 100,
                Min(bounds.width, screenSize.width - 200),
                Min(bounds.height, screenSize.height - 200))

move_window_to_primary_screen(st, params, env) ==
    LET st1 == ListCall(st)
        targetWindow == FindById(params.windowId)
        bounds == windows[targetWindow].bounds
        new == NewBounds(bounds, params.preserveSize)
        st2 == Emit(st1, Ev("moveWindow", "", new.x, new.y))
        st3 == Emit(Emit(st2, Ev("resizeWindow", "", new.width, new.height)),
                    Ev("delay", "", 500, 0))
    IN IF Absent(params)
         THEN Caught(st)
       ELSE IF ListFails(st, env)
         THEN Return(st1, Fail(Err("Failed to get window list", "", <<>>)))
       ELSE IF targetWindow = NoWin
         THEN Return(st1, Fail(Err("Window not found with ID", "", <<params.windowId>>)))
       ELSE IF IsOnPrimaryDisplay(bounds)
         THEN Return(st1, [success |-> TRUE, message |-> "already on the primary screen"])
       ELSE IF env.moveFails
         THEN Return(st2, Fail(Err("Failed to move window", "", <<>>)))
       ELSE Return([st3 EXCEPT !.moved = [id |-> targetWindow, bounds |-> new]],
                   [success |-> TRUE, message |-> "moved to primary screen",
                    newBounds |-> new])

\* a display test that wants the whole window on the primary display
ListedWhollyOnPrimary(bounds) ==
    /\ bounds.x >= 0
    /\ bounds.y >= 0
    /\ bounds.x + bounds.width <= screenSize.width
    /\ bounds.y + bounds.height <= screenSize.height

\* list_windows: isOnPrimaryDisplay of a window
ListedOnPrimary(bounds) ==
    /\ bounds.x >= 0
    /\ bounds.y >= 0
    /\ bounds.x < screenSize.width
    /\ bounds.y < screenSize.height

\* list_windows: displayLocation of a window
ListedLocation(bounds) ==
    IF ListedOnPrimary(bounds) THEN "primary"
    ELSE IF bounds.x < 0 THEN "secondary-left"
    ELSE IF bounds.x >= screenSize.width THEN "secondary-right"
    ELSE IF bounds.y < 0 THEN "secondary-top"
    ELSE IF bounds.y >= screenSize.height THEN "secondary-bottom"
    ELSE "secondary-unknown"

\* list_windows: one entry per window of the list
list_windows(st, env) ==
    LET st1 == ListCall(st)
    IN IF ListFails(st, env)
         THEN Return(st1, Fail(Err("Failed to get window list", "", <<>>)))
         ELSE Return(st1,
                [success |-> TRUE,
                 result |-> [w \in OpenIds |->
                               [id |-> w,
                                title |-> windows[w].title,
                                bounds |-> windows[w].bounds,
                                displayLocation |-> ListedLocation(windows[w].bounds),
                                isOnPrimaryDisplay |-> ListedOnPrimary(windows[w].bounds)]]])

-----------------------------------------------------------------------------
(* multiple_desktop_actions *)

ActionTypes == {"mouse_move", "mouse_click", "keyboard_press", "keyboard_type",
                "screen_capture", "window_capture", "focus_window",
                "move_window_to_primary_screen"}

\* the switch on the action's type
Dispatch(st, type, actionParams, env) ==
    CASE type = "mouse_move" -> mouse_move(st, actionParams, env)
      [] type = "mouse_click" -> mouse_click(st, actionParams, env)
      [] type = "keyboard_press" -> keyboard_press(st, actionParams, env)
      [] type = "keyboard_type" -> keyboard_type(st, actionParams, env)
      [] type = "screen_capture" -> screen_capture(st, actionParams, env)
      [] type = "window_capture" -> window_capture(st, actionParams, env)
      [] type = "focus_window" -> focus_window(st, actionParams, env)
      [] type = "move_window_to_primary_screen" ->
             move_window_to_primary_screen(st, actionParams, env)

\* "Action i: type is required", "Action i: Unknown action type", "Action i (type): error"
StepError(i, type, e) == [action |-> i, type |-> type, error |-> e]

\* a pass of the loop that goes on to the next step whatever the result
LoopDispatchedLenient(b, out) ==
    [b |-> [b EXCEPT !.i = @ + 1,
                     !.hasErrors = @ \/ IsFalse(out.ret),
                     !.results = Append(@, [action |-> b.i,
                                            type |-> b.actions[b.i + 1].type,
                                            result |-> out.ret])],
     st |-> out.st]

\* one pass of the for loop after the switch: out is the state and the
\* result the dispatched handler left
LoopDispatched(b, out) ==
    LET i == b.i
        action == b.actions[i + 1]
        type == action.type
        result == out.ret
        failed == IsFalse(result)
        error == StepError(i, type, IF failed THEN result.error ELSE <<>>)
        entry == [action |-> i, type |-> type, result |-> result]
    IN IF "thrown" \in DOMAIN result
         \* the await rejects: the catch of multiple_desktop_actions returns
         THEN [b |-> [b EXCEPT !.pc = "returned", !.ret = Fail(result.thrown)],
               st |-> out.st]
       ELSE IF failed /\ ~b.continueOnError
         THEN [b |-> [b EXCEPT !.pc = "returned",
                               !.hasErrors = TRUE,
                               !.errors = Append(@, error),
                               !.ret = Fail(error)],
               st |-> out.st]
         ELSE [b |-> [b EXCEPT !.i = i + 1,
                               !.hasErrors = @ \/ failed,
                               !.errors = IF failed THEN Append(@, error) ELSE @,
                               !.results = Append(@, entry)],
               st |-> IF action.delay > 0
                        THEN Emit(out.st, Ev("delay", "batch", action.delay, i))
                        ELSE out.st]

\* a pass of the loop that takes a step of unknown or missing type for done
LoopBodySkipping(b, st, env) ==
    IF b.actions[b.i + 1].type \notin ActionTypes
      THEN [b |-> [b EXCEPT !.i = @ + 1,
                            !.results = Append(@, [action |-> b.i,
                                                   type |-> "unknown",
                                                   result |-> [success |-> TRUE]])],
            st |-> st]
      ELSE LoopDispatched(b, Dispatch(st, b.actions[b.i + 1].type,
                                      b.actions[b.i + 1].params, env))

\* one pass of the for loop, for index b.i (0-based): b is the loop's
\* variables, st the state the dispatched handler works on.  Returns the
\* loop's variables and the state after the pass.
LoopBody(b, st, env) ==
    LET i == b.i
        action == b.actions[i + 1]
        type == action.type
        error0 == StepError(i, IF type = "" THEN "unknown" ELSE type,
                            Err(IF type = "" THEN "type is required"
                                ELSE "Unknown action type", type, <<>>))
    IN IF type \notin ActionTypes
         THEN IF b.continueOnError
                THEN [b |-> [b EXCEPT !.i = i + 1,
                                      !.hasErrors = TRUE,
                                      !.errors = Append(@, error0),
                                      !.results = Append(@, [action |-> i,
                                            type |-> error0.type,
                                            result |-> Fail(error0)])],
                      st |-> st]
                ELSE [b |-> [b EXCEPT !.pc = "returned",
                                      !.ret = Fail(error0)],
                      st |-> st]
         ELSE LoopDispatched(b, Dispatch(st, type, action.params, env))

\* a final return that reports success whatever happened
LoopExitBlind(b) ==
    [success |-> TRUE, message |-> <<Len(b.actions), 0>>, results |-> b.results]

\* the return after the loop
LoopExit(b) ==
    IF b.hasErrors /\ ~b.continueOnError
      THEN [success |-> FALSE, error |-> b.errors, results |-> b.results]
    ELSE IF b.hasErrors
      THEN [success |-> FALSE, message |-> <<Len(b.actions), Len(b.errors)>>,
            results |-> b.results, errors |-> b.errors]
      ELSE [success |-> TRUE, message |-> <<Len(b.actions), 0>>,
            results |-> b.results]

-----------------------------------------------------------------------------
(* The environment's inputs *)

\* the environment's answers to one invocation's external calls: the index
\* of the focusWindow, getOpenWindows and screenshot call that fails (0: none),
\* the size of the grabbed image, the length of the encoded buffer
Nominal ==
    [focusFail |-> 0, listFail |-> 0, grabFail |-> 0,
     phys |-> Size(2880, 1800), bytes |-> 40 * 1024,
     encodeFails |-> FALSE, moveFails |-> FALSE]

\* environments in which at most the window manager fails
EnvWindows(nfocus, nlist) ==
    {Nominal}
    \cup {[Nominal EXCEPT !.focusFail = k] : k \in 1..nfocus}
    \cup {[Nominal EXCEPT !.listFail = k] : k \in 1..nlist}

\* environments of an invocation that captures
EnvCapture(nfocus, nlist, ngrab) ==
    EnvWindows(nfocus, nlist)
    \cup {[Nominal EXCEPT !.phys = p, !.bytes = n] : p \in PhysSizes, n \in ByteSizes}
    \cup {[Nominal EXCEPT !.grabFail = k] : k \in 1..ngrab}
    \cup {[Nominal EXCEPT !.encodeFails = TRUE]}

Calc == <<"C", "a", "l", "c">>
Notes == <<"N", "o", "t", "e", "s">>

\* where a window on the primary display may be
PrimaryRects == {Rect(100, 50, 800, 600), Rect(300, 200, 401, 301)}

\* where a window may be on a desktop of several displays
DisplayRects == PrimaryRects \cup
    {Rect(0, 0, 1440, 900),
     Rect(-1200, 100, 800, 600), Rect(1440, 0, 800, 600),
     Rect(100, -700, 800, 600), Rect(100, 900, 800, 600),
     Rect(1000, 500, 800, 600), Rect(-100, 50, 800, 600),
     Rect(100, 50, 0, 600)}

NoMove == [id |-> NoWin, bounds |-> Rect(0, 0, 0, 0)]
NoResolve ==
    [metadata |-> NoRecord, found |-> NoRecord, origin |-> <<>>, point |-> <<>>]
NoCapture == [timestamp |-> -1]
IdleBatch ==
    [pc |-> "idle", actions |-> <<>>, continueOnError |-> FALSE, i |-> 0,
     results |-> <<>>, hasErrors |-> FALSE, errors |-> <<>>, ret |-> <<>>]

\* the state an invocation starts from
St0 ==
    [store |-> store, pointer |-> pointer, log |-> <<>>,
     lastScreenCapture |-> lastScreenCapture, screenshots |-> screenshots,
     resolved |-> NoResolve, moved |-> NoMove,
     nfocus |-> 0, nlist |-> 0, ngrab |-> 0]

\* the state a handler leaves, written back
Commit(st) ==
    /\ store' = st.store
    /\ pointer' = st.pointer
    /\ log' = st.log
    /\ lastScreenCapture' = st.lastScreenCapture
    /\ screenshots' = st.screenshots
    /\ resolved' = st.resolved
    /\ windows' = IF st.moved = NoMove THEN windows
                  ELSE [windows EXCEPT ![st.moved.id].bounds = st.moved.bounds]

\* one tool invocation, from the request to the reply
Invoke(op, params, out) ==
    /\ batch.pc = "idle"
    /\ call' = [op |-> op, params |-> params]
    /\ ret' = out.ret
    /\ Commit(out.st)
    /\ UNCHANGED <<now, batch, fn, inflight>>

\* the state after construction, with window 1 open at bounds r
InitWith(r) ==
    /\ windows = [w \in WinIds |->
                    IF w = 1 THEN [open |-> TRUE, title |-> Calc, bounds |-> r]
                    ELSE [open |-> FALSE, title |-> Notes,
                          bounds |-> Rect(300, 200, 401, 301)]]
    /\ now = 0
    /\ store = <<>>
    /\ lastScreenCapture = NoCapture
    /\ screenshots = {}
    /\ pointer = <<0, 0>>
    /\ call = [op |-> "none", params |-> <<>>]
    /\ ret = <<>>
    /\ log = <<>>
    /\ resolved = NoResolve
    /\ batch = IdleBatch
    /\ fn = <<>>
    /\ inflight = <<>>

Init == InitWith(Rect(100, 50, 800, 600))

\* the clock advances: by a millisecond, or by the lifetime of a record
Ticks == {a + b * TTL : a \in 0..MaxTicks, b \in 0..MaxTicks} \ 
         {a + b * TTL : a \in 1..MaxTicks, b \in MaxTicks..MaxTicks}
Tick ==
    /\ \E d \in {1, TTL} : now + d \in Ticks /\ now' = now + d
    /\ UNCHANGED <<windows, store, lastScreenCapture, screenshots, pointer,
                   call, ret, log, resolved, batch, fn, inflight>>

\* the user moves and resizes window 1 on the primary display
WindowChange ==
    /\ \E r \in PrimaryRects : windows' = [windows EXCEPT ![1].bounds = r]
    /\ windows' # windows
    /\ UNCHANGED <<now, store, lastScreenCapture, screenshots, pointer,
                   call, ret, log, resolved, batch, fn, inflight>>

\* the user moves window 1 anywhere on the desktop
DisplayChange ==
    /\ \E r \in DisplayRects : windows' = [windows EXCEPT ![1].bounds = r]
    /\ windows' # windows
    /\ UNCHANGED <<now, store, lastScreenCapture, screenshots, pointer,
                   call, ret, log, resolved, batch, fn, inflight>>

\* AI points an agent may ask for in window w: the image's corners and a
\* point inside
Points(w) ==
    {<<0, 0>>, <<37, 25>>}
    \cup (IF w \in DOMAIN store
          THEN {<<store[w].aiImageSize.width, store[w].aiImageSize.height>>}
          ELSE {})

FocusWindow ==
    \E w \in WinIds, env \in EnvWindows(1, 0) :
        Invoke("focus_window", [windowId |-> w],
               focus_window(St0, [windowId |-> w], env))

\* mouse_move for the windows in W, with the debug flag among D
MouseMoveOf(W, D, envs, denvs) ==
    \E w \in W, debug \in D :
      \E pt \in Points(w), env \in IF debug THEN denvs ELSE envs :
        Invoke("mouse_move",
               [x |-> pt[1], y |-> pt[2], windowId |-> w, debug |-> debug],
               mouse_move(St0, [x |-> pt[1], y |-> pt[2], windowId |-> w,
                                debug |-> debug], env))

MouseMove == MouseMoveOf(WinIds, {FALSE}, EnvWindows(1, 0), {Nominal})

\* window_capture of the windows in P
WindowCaptureOf(P, envs) ==
    \E p \in P, env \in envs :
        Invoke("window_capture", p, window_capture(St0, p, env))

ById(w) == [windowId |-> w, windowTitle |-> <<>>]
ByTitle(t) == [windowId |-> NoWin, windowTitle |-> t]

WindowCapture ==
    WindowCaptureOf({ById(1)},
                    {Nominal, [Nominal EXCEPT !.phys = Size(1440, 900)],
                     [Nominal EXCEPT !.grabFail = 1]})

Next == Tick \/ WindowChange \/ FocusWindow \/ MouseMove \/ WindowCapture

Spec == Init /\ [][Next]_vars

\* window capture on a desktop of several displays
WindowCaptureAnywhere ==
    WindowCaptureOf({ById(1), ById(2), ByTitle(<<"C", "A", "L">>),
                     ByTitle(<<>>)},
                    EnvCapture(1, 1, 1))

\* the regions screen_capture is asked for: none (the whole screen), a
\* region of the screen, an empty one, one wider than the screen
NoRegion == <<>>
Region(x1, y1, x2, y2) == [x1 |-> x1, y1 |-> y1, x2 |-> x2, y2 |-> y2]
Regions == {Region(0, 0, 720, 450), Region(100, 100, 100, 300),
            Region(0, 0, 2000, 900)}

ScreenCapture ==
    \E p \in {NoRegion} \cup Regions, env \in EnvCapture(0, 0, 1) :
        Invoke("screen_capture", p, screen_capture(St0, p, env))

NextCapture == DisplayChange \/ WindowCaptureAnywhere \/ ScreenCapture

SpecCapture == Init /\ [][NextCapture]_vars

-----------------------------------------------------------------------------
(* Clicks *)

\* the pressLength, button and double of a click: quick, double, held, and
\* two press lengths out of range
ClickKinds ==
    {[button |-> "left", double |-> FALSE, pressLength |-> 0],
     [button |-> "right", double |-> TRUE, pressLength |-> 0],
     [button |-> "left", double |-> FALSE, pressLength |-> 250],
     [button |-> "right", double |-> TRUE, pressLength |-> 5000],
     [button |-> "left", double |-> FALSE, pressLength |-> 5001],
     [button |-> "left", double |-> FALSE, pressLength |-> -1]}

\* environments of an invocation that may take the debug captures: a focus
\* or a grab fails, or the encoded image is too large
EnvDebug ==
    EnvWindows(3, 0)
    \cup {[Nominal EXCEPT !.grabFail = k] : k \in 1..2}
    \cup {[Nominal EXCEPT !.phys = Size(1440, 900)],
          [Nominal EXCEPT !.bytes = 300 * 1024 + 1]}

MouseMoveDebugging ==
    MouseMoveOf(WinIds \cup {NoWin}, BOOLEAN, EnvWindows(1, 0), EnvDebug)

MouseClick ==
    \E k \in ClickKinds, w \in {1, NoWin}, debug \in BOOLEAN,
       pt \in {NoPoint, <<37, 25>>} :
      \E env \in IF debug /\ pt # NoPoint THEN EnvDebug ELSE EnvWindows(2, 0) :
        LET params == [button |-> k.button, double |-> k.double,
                       windowId |-> w, pressLength |-> k.pressLength,
                       point |-> pt, debug |-> debug]
        IN Invoke("mouse_click", params, mouse_click(St0, params, env))

\* keyboard_press of a key, alone or with a modifier, tapped or held, the
\* hold within and outside 0..5000 ms
PressKinds ==
    {[modifiers |-> <<>>, pressLength |-> 0],
     [modifiers |-> <<"shift">>, pressLength |-> 0],
     [modifiers |-> <<>>, pressLength |-> 250],
     [modifiers |-> <<"shift">>, pressLength |-> 5000],
     [modifiers |-> <<>>, pressLength |-> 5001],
     [modifiers |-> <<"shift">>, pressLength |-> -1]}

KeyboardPress ==
    \E k \in PressKinds, w \in {1, NoWin}, env \in EnvWindows(1, 0) :
        LET params == [key |-> "a", modifiers |-> k.modifiers,
                       pressLength |-> k.pressLength, windowId |-> w]
        IN Invoke("keyboard_press", params, keyboard_press(St0, params, env))

NextClick == MouseMoveDebugging \/ MouseClick \/ KeyboardPress

SpecClick == Init /\ [][NextClick]_vars

-----------------------------------------------------------------------------
(* Batches *)

Step(type, params, delay) == [type |-> type, params |-> params, delay |-> delay]

\* the steps a batch is made of: steps that succeed, steps that fail, a
\* step of an unknown type and a step without a type
Steps ==
    {Step("mouse_move", [x |-> 37, y |-> 25, windowId |-> 1, debug |-> FALSE], 250),
     Step("mouse_click", [button |-> "left", double |-> FALSE, windowId |-> 1,
                          pressLength |-> 0, point |-> <<10, 10>>,
                          debug |-> FALSE], 0),
     Step("keyboard_type", [text |-> "hi", windowId |-> NoWin], 100),
     Step("keyboard_press", [key |-> "a", modifiers |-> <<>>,
                             pressLength |-> 6000, windowId |-> NoWin], 250),
     Step("focus_window", [windowId |-> 2], 250),
     Step("window_capture", ById(1), 0),
     Step("scroll", <<>>, 250),
     Step("", <<>>, 250)}

Batches == UNION {[1..n -> Steps] : n \in 1..MaxSteps}

\* the state a step of a batch starts from
StStep == [St0 EXCEPT !.log = log]

\* multiple_desktop_actions is called with one of the batches in B
BatchBeginOf(B) ==
    /\ batch.pc = "idle"
    /\ \E actions \in B, continueOnError \in BOOLEAN :
         /\ batch' = [IdleBatch EXCEPT !.pc = "loop", !.actions = actions,
                                       !.continueOnError = continueOnError]
         /\ call' = [op |-> "multiple_desktop_actions",
                     params |-> [n |-> Len(actions),
                                 continueOnError |-> continueOnError]]
    /\ ret' = <<>>
    /\ log' = <<>>
    /\ UNCHANGED <<windows, now, store, lastScreenCapture, screenshots,
                   pointer, resolved, fn, inflight>>

BatchBegin == BatchBeginOf(Batches)

\* one pass of the loop
BatchIteration ==
    /\ batch.pc = "loop"
    /\ batch.i < Len(batch.actions)
    /\ \E env \in EnvWindows(1, 0) :
         LET out == LoopBody(batch, StStep, env)
         IN /\ batch' = out.b
            /\ ret' = out.b.ret
            /\ Commit(out.st)
    /\ UNCHANGED <<now, call, fn, inflight>>

\* the loop has run out of actions
BatchReturn ==
    /\ batch.pc = "loop"
    /\ batch.i = Len(batch.actions)
    /\ batch' = [batch EXCEPT !.pc = "returned", !.ret = LoopExit(batch)]
    /\ ret' = LoopExit(batch)
    /\ UNCHANGED <<windows, now, store, lastScreenCapture, screenshots,
                   pointer, call, log, resolved, fn, inflight>>

NextBatch == BatchBegin \/ BatchIteration \/ BatchReturn

SpecBatch == Init /\ [][NextBatch]_vars

-----------------------------------------------------------------------------
(* The scale alone *)

\* the sides of logical sizes and of AI images
Sides == 1..MaxSize

\* AI coordinate a of an image of side ai, for a source of side logical,
\* is scaled as mouse_move scales it
Resolve ==
    /\ \E logical \in Sides, ai \in Sides :
         \E a \in 0..ai :
           fn' = [logical |-> logical, ai |-> ai, a |-> a,
                  scaled |-> ScaleCoord(a, logical, ai), back |-> -1]
    /\ UNCHANGED <<windows, now, store, lastScreenCapture, screenshots,
                   pointer, call, ret, log, resolved, batch,
                   inflight>>

\* the scaled coordinate is taken back with the inverse ratio of the same
\* record
Invert ==
    /\ fn # <<>>
    /\ fn.back = -1
    /\ fn' = [fn EXCEPT !.back = ScaleCoord(fn.scaled, fn.ai, fn.logical)]
    /\ UNCHANGED <<windows, now, store, lastScreenCapture, screenshots,
                   pointer, call, ret, log, resolved, batch,
                   inflight>>

NextScale == Resolve \/ Invert

SpecScale == Init /\ [][NextScale]_vars

-----------------------------------------------------------------------------
(* Records of window captures over time *)

\* where window 1 may be on the primary display, the whole of it included
RecordRects == PrimaryRects \cup {Rect(0, 0, 1440, 900)}

\* the user moves and resizes window 1 on the primary display
WindowResize ==
    /\ \E r \in RecordRects : windows' = [windows EXCEPT ![1].bounds = r]
    /\ windows' # windows
    /\ UNCHANGED <<now, store, lastScreenCapture, screenshots, pointer,
                   call, ret, log, resolved, batch, fn, inflight>>

\* window_capture of window 1, named by its id or by a part of its title
WindowCaptureRecorded ==
    WindowCaptureOf({ById(1), ByTitle(<<"C", "A", "L">>)},
                    {Nominal, [Nominal EXCEPT !.phys = Size(1440, 900)]})

\* mouse_move to the corner of window 1, which may write a record of its own
MouseMoveRecorded ==
    Invoke("mouse_move", [x |-> 0, y |-> 0, windowId |-> 1, debug |-> FALSE],
           mouse_move(St0, [x |-> 0, y |-> 0, windowId |-> 1, debug |-> FALSE],
                      Nominal))

NextRecord == Tick \/ WindowResize \/ WindowCaptureRecorded \/ MouseMoveRecorded

SpecRecord == Init /\ [][NextRecord]_vars

-----------------------------------------------------------------------------
(* Faults: collaborators that fail, parameter objects that are missing *)

CoreOperations ==
    {"screen_capture", "window_capture", "mouse_move", "mouse_click",
     "keyboard_press", "keyboard_type", "focus_window"}

\* a well-formed parameter object of each operation
WellFormed(op) ==
    CASE op = "screen_capture" -> NoRegion
      [] op = "window_capture" -> ById(1)
      [] op = "mouse_move" -> [x |-> 37, y |-> 25, windowId |-> 1, debug |-> FALSE]
      [] op = "mouse_click" -> [ClickDefaults EXCEPT !.windowId = 1, !.point = <<37, 25>>]
      [] op = "keyboard_press" -> [key |-> "a", modifiers |-> <<>>, pressLength |-> 0,
                                   windowId |-> 1]
      [] op = "keyboard_type" -> [text |-> "hi", windowId |-> 1]
      [] op = "focus_window" -> [windowId |-> 1]

\* environments in which one collaborator fails: the window manager, the
\* window list, the screen grab, the encoder
EnvFaults ==
    EnvWindows(1, 1)
    \cup {[Nominal EXCEPT !.grabFail = 1], [Nominal EXCEPT !.encodeFails = TRUE]}

\* operation op is invoked, with or without a parameter object
Operation(op) ==
    \E params \in {WellFormed(op), Undefined, Null}, env \in EnvFaults :
        Invoke(op, params, Dispatch(St0, op, params, env))

ScreenCaptureFaulty == Operation("screen_capture")
WindowCaptureFaulty == Operation("window_capture")
MouseMoveFaulty == Operation("mouse_move")
MouseClickFaulty == Operation("mouse_click")
KeyboardPressFaulty == Operation("keyboard_press")
KeyboardTypeFaulty == Operation("keyboard_type")
FocusWindowFaulty == Operation("focus_window")

\* multiple_desktop_actions without a parameter object: the destructuring
\* throws inside the try block
MultipleDesktopActionsAbsent ==
    \E params \in {Undefined, Null} :
        Invoke("multiple_desktop_actions", params, Caught(St0))

\* a batch of one good step, and batches with a step whose params is null
FaultyBatches ==
    {<<Step("keyboard_type", [text |-> "hi", windowId |-> 1], 0)>>,
     <<Step("mouse_move", Null, 0)>>,
     <<Step("keyboard_type", [text |-> "hi", windowId |-> NoWin], 100),
       Step("mouse_click", Null, 0),
       Step("keyboard_type", [text |-> "hi", windowId |-> NoWin], 0)>>}

BatchBeginFaulty == BatchBeginOf(FaultyBatches)

NextFaults ==
    \/ ScreenCaptureFaulty \/ WindowCaptureFaulty \/ MouseMoveFaulty
    \/ MouseClickFaulty \/ KeyboardPressFaulty \/ KeyboardTypeFaulty
    \/ FocusWindowFaulty \/ MultipleDesktopActionsAbsent
    \/ BatchBeginFaulty \/ BatchIteration \/ BatchReturn

SpecFaults == Init /\ [][NextFaults]_vars

-----------------------------------------------------------------------------
(* Windows brought to the primary display *)

\* where a window may be on a secondary display, right of or left of the
\* primary one: smaller than the primary screen, as large, larger
SecondaryRects ==
    {Rect(x, 0, w, h) : x \in {1440, -2560}, w \in {800, 1400, 1440, 2560},
                        h \in {600, 870, 900, 1440}}

\* the user puts window 1 somewhere on a secondary display
SecondaryChange ==
    /\ \E r \in SecondaryRects : windows' = [windows EXCEPT ![1].bounds = r]
    /\ windows' # windows
    /\ UNCHANGED <<now, store, lastScreenCapture, screenshots, pointer,
                   call, ret, log, resolved, batch, fn, inflight>>

\* environments in which the window list or the move helper fails
EnvMove ==
    {Nominal, [Nominal EXCEPT !.listFail = 1], [Nominal EXCEPT !.moveFails = TRUE]}

MoveWindowToPrimaryScreen ==
    \E w \in WinIds, preserveSize \in BOOLEAN, env \in EnvMove :
        Invoke("move_window_to_primary_screen",
               [windowId |-> w, preserveSize |-> preserveSize],
               move_window_to_primary_screen(
                   St0, [windowId |-> w, preserveSize |-> preserveSize], env))

NextMove == SecondaryChange \/ MoveWindowToPrimaryScreen

SpecMove == Init /\ [][NextMove]_vars

-----------------------------------------------------------------------------
(* The downscale target, taken alone *)

\* fractions num / den from 0 to 1, the captures' 1/2 among them
Fractions == {f \in (0..MaxDen) \X (1..MaxDen) : f[1] <= f[2]}

\* sides of the image to downscale: the smallest, and those of screenshots
\* around the caps
CurrentSides == (1..MaxSize) \cup {1440, 2561, 2880}

\* caps per axis: the captures' 1280x720, and small ones down to 0
CapSizes == {Size(1280, 720), Size(0, 3), Size(2, 0)}

\* the target of 390-395 for a current size, and whether the resize step
\* is applied
Downscaled(current, f, cap, tw, th) ==
    [current |-> current, fraction |-> f, cap |-> cap,
     target |-> Size(tw, th),
     resize |-> WillResize(current.width, current.height, tw, th)]

Downscale ==
    /\ fn = <<>>
    /\ \E cw \in CurrentSides, ch \in CurrentSides, f \in Fractions, cap \in CapSizes :
         fn' = Downscaled(Size(cw, ch), f, cap,
                          targetDownscaleSize(cw, f[1], f[2], cap.width),
                          targetDownscaleSize(ch, f[1], f[2], cap.height))
    /\ UNCHANGED <<windows, now, store, lastScreenCapture, screenshots,
                   pointer, call, ret, log, resolved, batch,
                   inflight>>

NextTarget == Downscale

SpecTarget == Init /\ [][NextTarget]_vars

-----------------------------------------------------------------------------
(* Windows around the edges of the primary display *)

\* origins on both sides of each edge of the primary display, and beyond
\* two edges at once
EdgeRects == DisplayRects \cup
    {Rect(1439, 899, 800, 600), Rect(-1, -1, 800, 600),
     Rect(1440, -5, 800, 600), Rect(500, 900, 800, 600),
     Rect(-3, 905, 800, 600), Rect(1500, 950, 800, 600)}

EdgeChange ==
    /\ \E r \in EdgeRects : windows' = [windows EXCEPT ![1].bounds = r]
    /\ windows' # windows
    /\ UNCHANGED <<now, store, lastScreenCapture, screenshots, pointer,
                   call, ret, log, resolved, batch, fn, inflight>>

ListWindows ==
    \E env \in {Nominal, [Nominal EXCEPT !.listFail = 1]} :
        Invoke("list_windows", <<>>, list_windows(St0, env))

WindowCaptureDisplayed == WindowCaptureOf({ById(1)}, EnvWindows(1, 0))

MoveToPrimary ==
    \E env \in EnvMove :
        Invoke("move_window_to_primary_screen",
               [windowId |-> 1, preserveSize |-> FALSE],
               move_window_to_primary_screen(
                   St0, [windowId |-> 1, preserveSize |-> FALSE], env))

NextDisplay == EdgeChange \/ ListWindows \/ WindowCaptureDisplayed \/ MoveToPrimary

SpecDisplay == Init /\ [][NextDisplay]_vars

-----------------------------------------------------------------------------
(* Invocations in progress at the same time *)

\* The handlers are async functions on one thread: the code between two
\* awaits runs without interruption, and at each await any other invocation
\* in progress may run its next segment.  Here every segment is one action.

Procs == {1, 2}

\* two windows on the primary display: the first fills it, so that its
\* capture is downscaled to 1152x720; the second is captured 1:1
WindowsSideBySide ==
    [w \in WinIds |->
       IF w = 1 THEN [open |-> TRUE, title |-> Calc, bounds |-> Rect(0, 0, 1440, 900)]
       ELSE [open |-> TRUE, title |-> Notes, bounds |-> Rect(300, 200, 401, 301)]]

\* no invocation in progress
Idle ==
    [op |-> "none", windowId |-> NoWin, x |-> 0, y |-> 0, pc |-> "idle",
     metadata |-> NoRecord, bounds |-> Rect(0, 0, 0, 0), moved |-> NoPoint,
     clickedAt |-> NoPoint, ret |-> <<>>]

InitConcurrent ==
    /\ windows = WindowsSideBySide
    /\ now = 0
    /\ store = <<>>
    /\ lastScreenCapture = NoCapture
    /\ screenshots = {}
    /\ pointer = <<0, 0>>
    /\ call = [op |-> "none", params |-> <<>>]
    /\ ret = <<>>
    /\ log = <<>>
    /\ resolved = NoResolve
    /\ batch = IdleBatch
    /\ fn = <<>>
    /\ inflight = [p \in Procs |-> Idle]

\* the requests a client sends while others are in progress
Requests ==
    {[Idle EXCEPT !.op = "window_capture", !.windowId = w, !.pc = "captureCalled"]
       : w \in WinIds}
    \cup {[Idle EXCEPT !.op = "mouse_move", !.windowId = w, !.x = 100, !.y = 100,
                       !.pc = "moveCalled"] : w \in WinIds}
    \cup {[Idle EXCEPT !.op = "mouse_click", !.windowId = 1, !.x = c, !.y = c,
                       !.pc = "clickCalled"] : c \in {100, 200}}

\* what a segment leaves alone besides the store and the pointer
SegmentFrame ==
    UNCHANGED <<windows, now, lastScreenCapture, screenshots, call, ret, log,
                resolved, batch, fn>>

\* a segment of invocation p that ends at an await or at a return
Suspend(p, next) == inflight' = [inflight EXCEPT ![p] = next]

\* the reply of invocation p
Replied(p, result) == [inflight[p] EXCEPT !.pc = "done", !.ret = result]

\* the server takes a request while it has a free slot
Request(p) ==
    /\ inflight[p].pc \in {"idle", "done"}
    /\ \E r \in Requests : Suspend(p, r)
    /\ UNCHANGED <<store, pointer>>
    /\ SegmentFrame

\* mouse_click up to the end of its own focus wait
ClickFocus(p) ==
    /\ inflight[p].pc = "clickCalled"
    /\ Suspend(p, IF FindById(inflight[p].windowId) = NoWin
                    THEN Replied(p, Fail(Err("Window not found with ID", "",
                                             <<inflight[p].windowId>>)))
                    ELSE [inflight[p] EXCEPT !.pc = "moveCalled"])
    /\ UNCHANGED <<store, pointer>>
    /\ SegmentFrame

\* mouse_move up to the end of its focus wait
MoveFocus(p) ==
    /\ inflight[p].pc = "moveCalled"
    /\ Suspend(p, IF FindById(inflight[p].windowId) = NoWin
                    THEN Replied(p, Fail(Err("Window not found with ID", "",
                                             <<inflight[p].windowId>>)))
                    ELSE [inflight[p] EXCEPT !.pc = "lookup"])
    /\ UNCHANGED <<store, pointer>>
    /\ SegmentFrame

\* mouse_move looks the window's record up; when there is none, or a stale
\* one, it asks for the window list before it writes a basic one
MoveLookup(p) ==
    /\ inflight[p].pc = "lookup"
    /\ LET windowId == inflight[p].windowId
       IN Suspend(p, IF windowId \notin DOMAIN store
                       THEN [inflight[p] EXCEPT !.pc = "fallback"]
                     ELSE IF IsStale(store[windowId])
                       THEN [inflight[p] EXCEPT !.pc = "fallback"]
                     ELSE [inflight[p] EXCEPT !.pc = "transform",
                                              !.metadata = store[windowId]])
    /\ UNCHANGED <<store, pointer>>
    /\ SegmentFrame

\* a lock the handlers do not have: a move waits while another invocation
\* is between its own move and its click
PointerOwned(p) ==
    \A q \in Procs \ {p} : ~(inflight[q].op = "mouse_click"
                             /\ inflight[q].pc = "settle")

\* nothing in the handlers makes an invocation wait for another
PointerFree(p) == TRUE

\* mouse_move, the window list in hand, writes the basic record
MoveFallback(p) ==
    /\ inflight[p].pc = "fallback"
    /\ LET windowId == inflight[p].windowId
           targetWindow == FindById(windowId)
           metadata == BasicMetadata(windowId, windows[windowId].bounds)
       IN IF targetWindow = NoWin
            THEN /\ Suspend(p, Replied(p, Fail(Err("Window not found with ID", "",
                                                   <<windowId>>))))
                 /\ UNCHANGED store
            ELSE /\ store' = Put(store, windowId, metadata)
                 /\ Suspend(p, [inflight[p] EXCEPT !.pc = "transform",
                                                   !.metadata = metadata])
    /\ UNCHANGED pointer
    /\ SegmentFrame

\* mouse_move, the window list in hand again, converts and moves the pointer
MoveTransform(p) ==
    /\ inflight[p].pc = "transform"
    /\ PointerFree(p)
    /\ LET windowId == inflight[p].windowId
           targetWindow == FindById(windowId)
           point == Transform(inflight[p].x, inflight[p].y, inflight[p].metadata,
                              windows[windowId].bounds)
       IN IF targetWindow = NoWin
            THEN /\ Suspend(p, Replied(p, Fail(Err(
                        "Window not found for coordinate conversion with ID", "",
                        <<windowId>>))))
                 /\ UNCHANGED pointer
            ELSE /\ pointer' = point
                 /\ Suspend(p, IF inflight[p].op = "mouse_click"
                                 THEN [inflight[p] EXCEPT !.pc = "settle", !.moved = point]
                                 ELSE [Replied(p, [success |-> TRUE])
                                         EXCEPT !.moved = point])
    /\ UNCHANGED store
    /\ SegmentFrame

\* mouse_click, 50 ms after its move, clicks where the pointer is
ClickSettled(p) ==
    /\ inflight[p].pc = "settle"
    /\ Suspend(p, [Replied(p, [success |-> TRUE]) EXCEPT !.clickedAt = pointer])
    /\ UNCHANGED <<store, pointer>>
    /\ SegmentFrame

\* window_capture finds its window in the list and asks for the focus
CaptureLookup(p) ==
    /\ inflight[p].pc = "captureCalled"
    /\ LET targetWindow == FindById(inflight[p].windowId)
       IN Suspend(p, IF targetWindow = NoWin
                       THEN Replied(p, Fail(Err("Window not found", "", <<>>)))
                       ELSE [inflight[p] EXCEPT !.pc = "grab",
                                                !.bounds = windows[targetWindow].bounds])
    /\ UNCHANGED <<store, pointer>>
    /\ SegmentFrame

\* window_capture, focused, checks the bounds and asks for the screenshot
CaptureGrab(p) ==
    /\ inflight[p].pc = "grab"
    /\ LET bounds == inflight[p].bounds
       IN Suspend(p, IF bounds.width <= 0 \/ bounds.height <= 0
                       THEN Replied(p, Fail(Err("Invalid window dimensions", "",
                                                <<bounds.width, bounds.height>>)))
                     ELSE IF ~IsOnPrimaryDisplay(bounds)
                       THEN Replied(p, Fail(Err(
                              "Window capture on secondary displays is not yet implemented",
                              DisplayLocation(bounds), <<>>)))
                     ELSE [inflight[p] EXCEPT !.pc = "encoded"])
    /\ UNCHANGED <<store, pointer>>
    /\ SegmentFrame

\* what the last segment of window_capture leaves: the record and the reply
CaptureStored(p, out) ==
    /\ store' = out.st.store
    /\ Suspend(p, [Replied(p, out.ret)
                     EXCEPT !.metadata = IF "content" \in DOMAIN out.ret
                                           THEN out.st.store[inflight[p].windowId]
                                           ELSE NoRecord])

\* window_capture, the image encoded and measured, checks the payload,
\* writes its record and replies
CaptureStore(p) ==
    /\ inflight[p].pc = "encoded"
    /\ CaptureStored(p, CaptureGrabbed(St0, inflight[p].windowId, inflight[p].bounds,
                                       Nominal))
    /\ UNCHANGED pointer
    /\ SegmentFrame

NextConcurrent ==
    \E p \in Procs :
      \/ Request(p)
      \/ ClickFocus(p)
      \/ MoveFocus(p)
      \/ MoveLookup(p)
      \/ MoveFallback(p)
      \/ MoveTransform(p)
      \/ ClickSettled(p)
      \/ CaptureLookup(p)
      \/ CaptureGrab(p)
      \/ CaptureStore(p)

SpecConcurrent == InitConcurrent /\ [][NextConcurrent]_vars

-----------------------------------------------------------------------------
(* Properties *)

\* the positions in log l of the events named in names
EventsAt(l, names) == {i \in DOMAIN l : l[i].ev \in names}

\* the invocation's first external effect was a successful focus of window w
Focused(l, w) == l # <<>> /\ l[1] = Ev("focus", "", w, 1)

\* a step that is an invocation of mouse_move: the clock and the windows
\* stand still while a handler runs
MouseMoveStep == call'.op = "mouse_move" /\ UNCHANGED <<now, windows>>

\* the record is within its lifetime
Fresh(metadata) == now - metadata.timestamp <= 5 * 60 * 1000

\* C1: window-offset composition.  When mouse_move is called for an open
\* window at logical bounds (bx, by, bw, bh) whose record in the store is
\* fresh and has originalLogicalSize = (bw, bh), and the window takes the
\* focus, the call succeeds, AI point (0, 0) moves the pointer to exactly
\* (bx, by), and AI point (aiImageSize.width, aiImageSize.height) moves it
\* to (bx + bw, by + bh).
C1_WindowOffsetComposition ==
    [][LET w == call'.params.windowId
           b == windows[w].bounds
           m == store[w]
       IN (/\ MouseMoveStep
           /\ w \in OpenIds
           /\ w \in DOMAIN store
           /\ Fresh(m)
           /\ m.originalLogicalSize = Size(b.width, b.height)
           /\ m.aiImageSize.width > 0
           /\ m.aiImageSize.height > 0
           /\ Focused(log', w))
          => /\ Truthy(ret')
             /\ (call'.params.x = 0 /\ call'.params.y = 0)
                  => pointer' = <<b.x, b.y>>
             /\ (/\ call'.params.x = m.aiImageSize.width
                 /\ call'.params.y = m.aiImageSize.height)
                  => pointer' = <<b.x + b.width, b.y + b.height>>]_vars

\* C1 happens: the far corner of a downscaled image was resolved to the far
\* corner of the window
C1_CornerReached ==
    /\ call.op = "mouse_move"
    /\ Truthy(ret)
    /\ resolved # NoResolve
    /\ resolved.found = resolved.metadata
    /\ resolved.metadata.aiImageSize.width < resolved.metadata.originalLogicalSize.width
    /\ resolved.point = <<resolved.metadata.aiImageSize.width,
                          resolved.metadata.aiImageSize.height>>
    /\ LET b == windows[call.params.windowId].bounds
       IN /\ resolved.metadata.originalLogicalSize = Size(b.width, b.height)
          /\ resolved.origin = <<b.x, b.y>>
          /\ pointer = <<b.x + b.width, b.y + b.height>>

\* the difference of two coordinates
Dist(a, b) == IF a >= b THEN a - b ELSE b - a

\* C2 as stated: round-trip scale invariance.  For any sourceLogicalSize,
\* any aiImageSize and any AI coordinate a in 0..aiImageSize, scaling a as
\* mouse_move does and scaling the result back with the inverse ratio of the
\* same record gives a back within one pixel.
C2_RoundTrip ==
    (fn # <<>> /\ fn.back # -1) => Dist(fn.back, fn.a) <= 1

\* C2, amended: the round trip is within one pixel whenever the AI image is
\* at most three times the logical size on that axis.
C2_RoundTripWithin3x ==
    (fn # <<>> /\ fn.back # -1 /\ fn.ai <= 3 * fn.logical)
        => Dist(fn.back, fn.a) <= 1

\* C2 happens: at exactly three times the logical size a coordinate came
\* back one pixel off
C2_OffByOneAt3x ==
    /\ fn # <<>>
    /\ fn.back # -1
    /\ fn.ai = 3 * fn.logical
    /\ fn.a > 0
    /\ Dist(fn.back, fn.a) = 1

\* C3: staleness triggers regeneration.  When mouse_move resolves a point
\* for a window that has a record in the store, it uses that record if and
\* only if now - timestamp <= 5 minutes: a fresh record gives the scale
\* originalLogicalSize / aiImageSize of the record, and an older one is
\* replaced by a record synthesized from the window's current bounds, whose
\* 1:1 scale is the one applied.
C3_StalenessTriggersRegeneration ==
    [][LET w == call'.params.windowId
           x == call'.params.x
           y == call'.params.y
           b == windows[w].bounds
           old == store[w]
           age == now - old.timestamp
       IN (MouseMoveStep /\ resolved' # NoResolve /\ w \in DOMAIN store)
          => /\ (resolved'.metadata = old) <=> (age <= 5 * 60 * 1000)
             /\ (age <= 5 * 60 * 1000)
                  => /\ store' = store
                     /\ pointer' =
                          <<b.x + Round(x * old.originalLogicalSize.width,
                                        old.aiImageSize.width),
                            b.y + Round(y * old.originalLogicalSize.height,
                                        old.aiImageSize.height)>>
             /\ (age > 5 * 60 * 1000)
                  => /\ resolved'.metadata.aiImageSize = Size(b.width, b.height)
                     /\ resolved'.metadata.originalLogicalSize = Size(b.width, b.height)
                     /\ resolved'.metadata.timestamp = now
                     /\ store'[w] = resolved'.metadata
                     /\ pointer' = <<b.x + x, b.y + y>>]_vars

\* C3 happens: a downscaled record one millisecond past its lifetime was
\* found, and the point was resolved 1:1 instead
C3_StaleRecordReplaced ==
    /\ call.op = "mouse_move"
    /\ resolved # NoResolve
    /\ resolved.found # NoRecord
    /\ resolved.found.aiImageSize.width < resolved.found.originalLogicalSize.width
    /\ resolved.metadata.timestamp = resolved.found.timestamp + 5 * 60 * 1000 + 1
    /\ resolved.metadata.aiImageSize = resolved.metadata.originalLogicalSize
    /\ resolved.point = <<37, 25>>
    /\ pointer = <<resolved.origin[1] + 37, resolved.origin[2] + 25>>

C5_AbortCarriesResults ==
    (batch.pc = "returned" /\ ~batch.continueOnError /\ IsFalse(batch.ret))
        => /\ "error" \in DOMAIN batch.ret
           /\ "results" \in DOMAIN batch.ret
           /\ Len(batch.ret.results) \in {batch.i, batch.i + 1}

\* where C5 fails: the second of three steps failed and the reply carries
\* no results, though one entry had been accumulated
C5_AbortedWithoutResults ==
    /\ batch.pc = "returned"
    /\ ~batch.continueOnError
    /\ Len(batch.actions) = 3
    /\ batch.i = 1
    /\ Len(batch.results) = 1
    /\ IsFalse(batch.ret)
    /\ "results" \notin DOMAIN batch.ret

\* the entries of failed steps among results
FailedEntries(results) == SelectSeq(results, LAMBDA e : IsFalse(e.result))

\* the errors list of a reply, empty when the reply carries none
ErrorsOf(r) == IF "errors" \in DOMAIN r THEN r.errors ELSE <<>>

\* what C6 says of the reply of a batch b that ran with continueOnError
ContinueReply(b) ==
    LET n == Len(b.actions)
        failed == FailedEntries(b.ret.results)
    IN /\ b.i = n
       /\ Len(b.ret.results) = n
       /\ \A j \in 1..n : b.ret.results[j].action = j - 1
       /\ Len(ErrorsOf(b.ret)) = Len(failed)
       /\ \A k \in 1..Len(failed) : ErrorsOf(b.ret)[k].action = failed[k].action
       /\ b.ret.success <=> (failed = <<>>)

C7_TrailingDelayElapsed ==
    [][(/\ batch.pc = "loop"
        /\ batch.i > 0
        /\ batch.i < Len(batch.actions)
        /\ batch' # batch
        /\ batch.actions[batch.i].delay > 0)
       => /\ log # <<>>
          /\ log[Len(log)] = Ev("delay", "batch", batch.actions[batch.i].delay,
                                batch.i - 1)]_vars

\* where C7 fails: the loop is about to begin the second step, the first
\* was of an unknown type with a delay of 250 ms, and nothing has waited
C7_NextStepWithoutDelay ==
    /\ batch.pc = "loop"
    /\ batch.i = 1
    /\ Len(batch.actions) > 1
    /\ batch.actions[1].type = "scroll"
    /\ batch.actions[1].delay = 250
    /\ EventsAt(log, {"delay"}) = {}

\* C8 as stated: click-with-coordinates is resolve, move, click.  After
\* mouse_click with a point, a windowId and a pressLength in range, for all
\* values of button, double and debug: every move of the pointer is followed
\* by the click or hold, and no click or hold comes before the move.
C8_MoveThenClick ==
    (/\ call.op = "mouse_click"
     /\ call.params.point # NoPoint
     /\ call.params.windowId # NoWin
     /\ call.params.pressLength >= 0
     /\ call.params.pressLength <= 5000)
    => LET moves == EventsAt(log, {"moveMouse"})
           clicks == EventsAt(log, {"mouseClick", "mouseToggle"})
       IN /\ \A i \in moves : \E j \in clicks : i < j
          /\ \A j \in clicks : \E i \in moves : i < j

\* where C8 fails: a click with debug on moved the pointer and returned the
\* annotated screenshot of mouse_move without clicking
C8_MovedWithoutClick ==
    /\ call.op = "mouse_click"
    /\ call.params.debug
    /\ call.params.point = <<37, 25>>
    /\ call.params.windowId = 1
    /\ call.params.pressLength = 0
    /\ EventsAt(log, {"moveMouse"}) # {}
    /\ EventsAt(log, {"mouseClick", "mouseToggle"}) = {}
    /\ pointer = <<resolved.origin[1] + 37, resolved.origin[2] + 25>>
    /\ "isError" \in DOMAIN ret
    /\ "success" \notin DOMAIN ret

\* C9: mouse_move requires a window and focuses it first.  In every
\* invocation that moves the pointer through mouse_move, the move comes
\* after a successful focus of the given window in the same invocation; and
\* when mouse_move is called without a windowId, or the focus fails, the
\* reply is {success: false, error}, and the pointer and the metadata store
\* are as they were.
C9_FocusBeforeMove ==
    [][/\ call'.op \in {"mouse_move", "mouse_click"}
          => \A i \in EventsAt(log', {"moveMouse"}) :
                \E j \in 1..(i - 1) :
                    log'[j] = Ev("focus", "", call'.params.windowId, 1)
       /\ (/\ call'.op = "mouse_move"
           /\ \/ call'.params.windowId = NoWin
              \/ ~Focused(log', call'.params.windowId))
          => /\ IsFalse(ret')
             /\ "error" \in DOMAIN ret'
             /\ pointer' = pointer
             /\ store' = store]_vars

\* C9 happens: the focus of window 1 failed, and the pointer and the store,
\* both set by earlier calls, were left alone
C9_FocusFailedNothingMoved ==
    /\ call.op = "mouse_move"
    /\ call.params.windowId = 1
    /\ log = <<Ev("focus", "", 1, 0)>>
    /\ IsFalse(ret)
    /\ pointer # <<0, 0>>
    /\ 1 \in DOMAIN store

\* no part of the rectangle is on the primary display
EntirelyOutside(b) ==
    \/ b.x + b.width <= 0
    \/ b.x >= screenSize.width
    \/ b.y + b.height <= 0
    \/ b.y >= screenSize.height

FullyWithin(b) ==
    /\ b.x >= 0
    /\ b.y >= 0
    /\ b.x + b.width <= screenSize.width
    /\ b.y + b.height <= screenSize.height

\* the window a window_capture request names
Target(p) ==
    IF p.windowId # NoWin THEN FindById(p.windowId) ELSE FindByTitle(p.windowTitle)

\* C11 as stated: the primary-display check covers the whole window.  Once
\* the window was found and took the focus, window_capture of a window of
\* positive width and height whose logical bounds are not fully within the
\* primary display fails with the secondary-display error, naming the
\* display location; a window whose origin is on the primary display and
\* whose right or bottom edge extends past it included.
C11_WholeWindowChecked ==
    [][LET p == call'.params
           b == windows[Target(p)].bounds
       IN (/\ call'.op = "window_capture"
           /\ windows' = windows
           /\ (p.windowId # NoWin \/ p.windowTitle # <<>>)
           /\ Target(p) # NoWin
           /\ Focused(log', Target(p))
           /\ b.width > 0
           /\ b.height > 0
           /\ ~FullyWithin(b))
          => /\ IsFalse(ret')
             /\ ret'.error.msg =
                  "Window capture on secondary displays is not yet implemented"
             /\ ret'.error.s # ""]_vars

\* where C11 fails: a window whose origin is on the primary display and
\* whose right and bottom edges extend past it went through the display
\* test and on to the screen grab, and was rejected only by the crop's
\* validation, with an error that names no display
C11_StraddlingGrabbed ==
    /\ call.op = "window_capture"
    /\ call.params.windowId = 1
    /\ windows[1].bounds = Rect(1000, 500, 800, 600)
    /\ ~FullyWithin(windows[1].bounds)
    /\ Focused(log, 1)
    /\ EventsAt(log, {"grab"}) # {}
    /\ IsFalse(ret)
    /\ ret.error.msg = "Window bounds exceed screenshot dimensions"

\* a step that is an invocation of one of the two captures
CaptureStep ==
    /\ call'.op \in {"screen_capture", "window_capture"}
    /\ UNCHANGED <<now, windows>>

\* the reply carries an image: {content, isError: false}
HasImage(r) == "isError" \in DOMAIN r /\ r.isError = FALSE

\* C12: size cap enforcement.  In screen_capture and window_capture,
\* whenever the encoder's buffer is longer than 300 KB (300 * 1024 bytes)
\* the call returns {success: false, error} and the error states the
\* measured size (in kilobytes, to one decimal) and the cap of 300 KB; no
\* reply that carries an image carries one longer than 300 KB.
C12_SizeCapEnforced ==
    [][CaptureStep
       => /\ \A i \in EventsAt(log', {"toBuffer"}) :
                log'[i].a > 300 * 1024
                => /\ IsFalse(ret')
                   /\ ret'.error.msg \in {"Screenshot too large (max 300KB)",
                                          "Window capture too large (max 300KB)"}
                   /\ ret'.error.nums = <<toFixed1(log'[i].a)>>
          /\ HasImage(ret') => ret'.content.bytes <= 300 * 1024]_vars

\* C12 happens: after a screen capture went through, a window capture
\* whose buffer was one byte over the cap was rejected, the error stating
\* 300.0 KB
C12_OneByteOverRejected ==
    /\ call.op = "window_capture"
    /\ lastScreenCapture # NoCapture
    /\ \E i \in DOMAIN log : log[i] = Ev("toBuffer", "", 300 * 1024 + 1, 0)
    /\ IsFalse(ret)
    /\ ret.error.msg = "Window capture too large (max 300KB)"
    /\ ret.error.nums = <<3000>>

\* C13: no upscaling.  The downscale target min(round(current * fraction),
\* cap), computed per axis, is never greater than the current size on
\* either axis, for every positive integer current size, every fraction
\* from 0 to 1 and every cap >= 0; and the resize step is applied only
\* when the target is smaller than the current size on at least one axis.
C13_NoUpscaling ==
    fn # <<>>
    => /\ fn.target.width <= fn.current.width
       /\ fn.target.height <= fn.current.height
       /\ fn.resize => \/ fn.target.width < fn.current.width
                       \/ fn.target.height < fn.current.height

\* C13 happens: half of a 1x1 image rounds up to the whole of it (the
\* target is 1x1, not larger) and the resize step is left out
C13_OnePixelKept ==
    /\ fn # <<>>
    /\ fn.current = Size(1, 1)
    /\ fn.fraction = <<1, 2>>
    /\ fn.cap = Size(1280, 720)
    /\ fn.target = Size(1, 1)
    /\ ~fn.resize

\* a step that is a successful capture of the whole screen of the example:
\* logical 1440x900, screenshot of 2880x1800
ExampleCaptureStep ==
    /\ call'.op = "screen_capture"
    /\ call'.params = NoRegion
    /\ UNCHANGED <<now, windows>>
    /\ HasImage(ret')
    /\ lastScreenCapture'.originalSize = Size(2880, 1800)

\* C14 as stated: in the example scenario the capture of the whole screen
\* records logicalScreenSize = (1440, 900) and aiImageSize = (1280, 800),
\* so that AI point (640, 400) resolves to logical (720, 450).
C14_ExampleScenario ==
    [][ExampleCaptureStep
       => LET m == lastScreenCapture'
          IN /\ m.logicalScreenSize = Size(1440, 900)
             /\ m.aiImageSize = Size(1280, 800)
             /\ ScaleCoord(640, m.logicalScreenSize.width, m.aiImageSize.width) = 720
             /\ ScaleCoord(400, m.logicalScreenSize.height, m.aiImageSize.height) = 450]_vars

\* C14: the example scenario.  With a primary screen of logical size
\* 1440x900 and a screenshot of 2880x1800, a capture of the whole screen
\* (fraction 0.5, cap 1280x720, aspect-preserving resize) records
\* logicalScreenSize = (1440, 900) and aiImageSize = (1152, 720), the
\* largest size of the screen's aspect ratio within the cap; the centre of
\* the image, AI point (576, 360), scales to logical (720, 450), and AI
\* point (640, 400) to logical (800, 500).
C14_ExampleWithinCap ==
    [][ExampleCaptureStep
       => LET m == lastScreenCapture'
          IN /\ m.logicalScreenSize = Size(1440, 900)
             /\ m.aiImageSize = Size(1152, 720)
             /\ ret'.content.image = m.aiImageSize
             /\ ScaleCoord(576, m.logicalScreenSize.width, m.aiImageSize.width) = 720
             /\ ScaleCoord(360, m.logicalScreenSize.height, m.aiImageSize.height) = 450
             /\ ScaleCoord(640, m.logicalScreenSize.width, m.aiImageSize.width) = 800
             /\ ScaleCoord(400, m.logicalScreenSize.height, m.aiImageSize.height) = 500]_vars

\* C14 happens: the whole screen of the example was captured, and the
\* image is 1152x720
C14_ExampleCaptured ==
    /\ call.op = "screen_capture"
    /\ call.params = NoRegion
    /\ HasImage(ret)
    /\ lastScreenCapture # NoCapture
    /\ lastScreenCapture.originalSize = Size(2880, 1800)
    /\ lastScreenCapture.logicalScreenSize = Size(1440, 900)
    /\ lastScreenCapture.aiImageSize = Size(1152, 720)
    /\ ret.content.image = Size(1152, 720)

\* C15: focus failure short-circuits window capture.  In window_capture,
\* if focusing the resolved target window fails, the call returns
\* {success: false, error} naming the focus failure, and the screen grab,
\* the crop, the resize, the encode and the metadata write are not
\* performed in that invocation.
C15_FocusFailureShortCircuits ==
    [][(/\ call'.op = "window_capture"
        /\ UNCHANGED <<now, windows>>
        /\ \E i \in EventsAt(log', {"focus"}) : log'[i].b = 0)
       => /\ IsFalse(ret')
          /\ ret'.error.msg = "Failed to focus window"
          /\ EventsAt(log', {"delay", "grab", "crop", "resize", "encode", "toBuffer"}) = {}
          /\ store' = store]_vars

\* C15 happens: the window of an earlier capture did not take the focus;
\* the call failed after the focus attempt alone and the record of the
\* earlier capture is still in the store
C15_CaptureStoppedAtFocus ==
    /\ call.op = "window_capture"
    /\ call.params = ById(1)
    /\ log = <<Ev("focus", "", 1, 0)>>
    /\ IsFalse(ret)
    /\ ret.error.msg = "Failed to focus window"
    /\ 1 \in DOMAIN store
    /\ "originalPhysicalSize" \in DOMAIN store[1]

\* C16: pressLength validation precedes all side effects.  mouse_click and
\* keyboard_press called with pressLength < 0 or pressLength > 5000 return
\* {success: false, error} without focusing any window, moving the
\* pointer, or injecting any button or key event: the invocation has no
\* external effect at all and leaves the pointer and the store as they
\* were.
C16_PressLengthValidatedFirst ==
    [][(/\ call'.op \in {"mouse_click", "keyboard_press"}
        /\ UNCHANGED <<now, windows>>
        /\ (call'.params.pressLength < 0 \/ call'.params.pressLength > 5000))
       => /\ IsFalse(ret')
          /\ ret'.error.msg = "pressLength must be between 0 and 5000 milliseconds"
          /\ log' = <<>>
          /\ pointer' = pointer
          /\ store' = store]_vars

\* C16 happens: after the pointer had been moved, keyboard_press for the
\* open window 1 with a hold of 5001 ms was refused with nothing done
C16_LongHoldRefused ==
    /\ call.op = "keyboard_press"
    /\ call.params.windowId = 1
    /\ call.params.pressLength = 5001
    /\ windows[1].open
    /\ IsFalse(ret)
    /\ log = <<>>
    /\ pointer # <<0, 0>>

\* the reply is a structured value: {success: ...} or {content, isError}
Structured(r) == IsFalse(r) \/ Truthy(r) \/ HasImage(r)

\* C17 as stated: no fault escapes an operation.  Whatever collaborator
\* fails and whether or not the parameter object is there, every invocation
\* of screen_capture, window_capture, mouse_move, mouse_click,
\* keyboard_press, keyboard_type, focus_window and multiple_desktop_actions
\* ends with a structured value, {success: false, error} when it was given
\* null for its parameters; no exception leaves the invocation.
C17_NoFaultEscapes ==
    (call.op # "none" /\ ret # <<>>)
    => /\ "thrown" \notin DOMAIN ret
       /\ Structured(ret)
       /\ call.params = Null => IsFalse(ret)

\* where C17 fails: mouse_move was called without a parameter object and
\* the TypeError of its catch block left the handler
C17_MouseMoveThrew ==
    /\ call.op = "mouse_move"
    /\ call.params = Undefined
    /\ ret = [thrown |-> Thrown]
    /\ log = <<>>

\* a step in which move_window_to_primary_screen, called with preserveSize
\* = true for an open window that is not on the primary display, got as far
\* as asking the window manager for the new bounds (no window went to a
\* secondary display in the step: the user did not move one)
PreservingMoveStep ==
    /\ call'.op = "move_window_to_primary_screen"
    /\ now' = now
    /\ \A w \in WinIds : windows'[w].bounds \notin SecondaryRects \ {windows[w].bounds}
    /\ call'.params.preserveSize
    /\ FindById(call'.params.windowId) # NoWin
    /\ ~IsOnPrimaryDisplay(windows[call'.params.windowId].bounds)
    /\ EventsAt(log', {"moveWindow"}) # {}

\* the width and height the invocation asked the window manager for
Requested(bounds) == NewBounds(bounds, TRUE)

\* C18 as stated: preserveSize keeps the window size.
\* move_window_to_primary_screen called with preserveSize = true on a
\* window that is not on the primary display requests a new width and
\* height equal to the window's original width and height, for every
\* window size.
C18_PreserveSizeKeepsSize ==
    [][PreservingMoveStep
       => LET bounds == windows[call'.params.windowId].bounds
          IN /\ Requested(bounds).width = bounds.width
             /\ Requested(bounds).height = bounds.height
             /\ Truthy(ret') => /\ ret'.newBounds.width = bounds.width
                                /\ ret'.newBounds.height = bounds.height
                                /\ windows'[call'.params.windowId].bounds.width = bounds.width
                                /\ windows'[call'.params.windowId].bounds.height = bounds.height]_vars

\* where C18 fails: a window of 2560x1440 was moved from a secondary display
\* with preserveSize = true and is now 1440x900, the size of the primary
\* screen
C18_LargeWindowShrunk ==
    /\ call.op = "move_window_to_primary_screen"
    /\ call.params = [windowId |-> 1, preserveSize |-> TRUE]
    /\ Truthy(ret)
    /\ "newBounds" \in DOMAIN ret
    /\ ret.newBounds = Rect(0, 0, 1440, 900)
    /\ windows[1].bounds = Rect(0, 0, 1440, 900)
    /\ \E i \in DOMAIN log : log[i] = Ev("resizeWindow", "", 1440, 900)

\* the effects in log l are those of the batch so far (before) followed by
\* those of one run of the handler that left out, and the step's delay
OneAttempt(l, before, out, action, i) ==
    /\ SubSeq(out.st.log, 1, Len(before)) = before
    /\ l \in {out.st.log, Append(out.st.log, Ev("delay", "batch", action.delay, i))}

\* C19: no retry and no reordering in a batch.  In any run of
\* multiple_desktop_actions each pass of the loop attempts the step at the
\* loop's index, once (the effects of the pass are those of one run of the
\* step's handler, none for a step of unknown or missing type), and then
\* either moves to the next index or returns: indices are attempted in
\* strictly increasing order, each at most once.  With continueOnError =
\* false the loop moves on only past a step that did not fail, so no step
\* after the first failing one is attempted; and once the batch has
\* returned nothing more is attempted.
C19_NoRetryNoReordering ==
    [][/\ (batch.pc = "loop" /\ batch' # batch)
          => /\ batch'.actions = batch.actions
             /\ \/ batch'.pc = "loop" /\ batch'.i = batch.i + 1
                \/ batch'.pc = "returned" /\ batch'.i = batch.i
             /\ batch.i < Len(batch.actions)
                  => LET a == batch.actions[batch.i + 1]
                     IN /\ a.type \in ActionTypes
                          => \E env \in EnvWindows(1, 0) :
                               OneAttempt(log', log,
                                          Dispatch(StStep, a.type, a.params, env),
                                          a, batch.i)
                        /\ a.type \notin ActionTypes => log' = log
             /\ (batch'.pc = "loop" /\ ~batch.continueOnError)
                  => ~IsFalse(batch'.results[batch'.i].result)
             /\ batch.i = Len(batch.actions) => log' = log
       /\ batch.pc = "returned"
          => UNCHANGED <<batch, log, pointer, store>>]_vars

\* C19 happens: of three steps the second failed without continueOnError;
\* the batch returned at index 1, the pointer was moved once, by the first
\* step, and the third step, which would have typed, was never attempted
C19_StoppedAtFirstFailure ==
    /\ batch.pc = "returned"
    /\ ~batch.continueOnError
    /\ Len(batch.actions) = 3
    /\ batch.actions[1].type = "mouse_move"
    /\ batch.actions[2].type = "focus_window"
    /\ batch.actions[3].type = "keyboard_type"
    /\ batch.i = 1
    /\ IsFalse(batch.ret)
    /\ Len(batch.results) = 1
    /\ Cardinality(EventsAt(log, {"moveMouse"})) = 1
    /\ EventsAt(log, {"typeString"}) = {}

\* a pass of the loop over a step whose type is unknown or missing
UnknownKindStep ==
    /\ batch.pc = "loop"
    /\ batch.i < Len(batch.actions)
    /\ batch.actions[batch.i + 1].type \notin ActionTypes
    /\ batch' # batch

\* C20: an unknown or missing step kind is a step failure with the same
\* branching as any other failure.  No primitive is invoked for the step.
\* With continueOnError = false the batch stops at that step with success =
\* false, the error naming the step's index, and nothing is invoked for
\* later steps; with continueOnError = true a failed result entry with the
\* step's index is recorded, an error with that index is appended to
\* errors, and the loop goes on to the next step.
C20_UnknownKindIsStepFailure ==
    [][/\ UnknownKindStep
          => /\ log' = log
             /\ pointer' = pointer
             /\ store' = store
             /\ ~batch.continueOnError
                  => /\ batch'.pc = "returned"
                     /\ batch'.i = batch.i
                     /\ batch'.results = batch.results
                     /\ IsFalse(batch'.ret)
                     /\ IsFalse(ret')
                     /\ batch'.ret.error.action = batch.i
             /\ batch.continueOnError
                  => /\ batch'.pc = "loop"
                     /\ batch'.i = batch.i + 1
                     /\ Len(batch'.results) = Len(batch.results) + 1
                     /\ SubSeq(batch'.results, 1, Len(batch.results)) = batch.results
                     /\ batch'.results[Len(batch'.results)].action = batch.i
                     /\ IsFalse(batch'.results[Len(batch'.results)].result)
                     /\ batch'.hasErrors
                     /\ Len(batch'.errors) = Len(batch.errors) + 1
                     /\ SubSeq(batch'.errors, 1, Len(batch.errors)) = batch.errors
                     /\ batch'.errors[Len(batch'.errors)].action = batch.i
       /\ (batch.pc = "returned" /\ IsFalse(batch.ret)) => log' = log]_vars

\* C20 happens: with continueOnError a step without a type was recorded as
\* failed at index 0, the step after it typed its text, and the reply has
\* two results, one error and success = false
C20_MissingKindRecorded ==
    /\ batch.pc = "returned"
    /\ batch.continueOnError
    /\ Len(batch.actions) = 2
    /\ batch.actions[1].type = ""
    /\ batch.actions[2].type = "keyboard_type"
    /\ Len(batch.ret.results) = 2
    /\ batch.ret.results[1].action = 0
    /\ batch.ret.results[1].type = "unknown"
    /\ IsFalse(batch.ret.results[1].result)
    /\ Truthy(batch.ret.results[2].result)
    /\ Len(ErrorsOf(batch.ret)) = 1
    /\ ~batch.ret.success
    /\ EventsAt(log, {"typeString"}) # {}

\* a step that is an invocation of window_capture
WindowCaptureStep == call'.op = "window_capture" /\ UNCHANGED <<now, windows>>

\* the dimensions the encoder's output was measured to have
Measured(l) == LET e == l[CHOOSE i \in EventsAt(l, {"encode"}) : TRUE]
               IN Size(e.a, e.b)

\* C21: metadata written on every successful window capture.  After any
\* window_capture that returns success for window w, selected by id or by
\* title, the store's record for w is exactly: windowId w,
\* originalLogicalSize the width and height of the bounds used for the
\* capture, originalPhysicalSize the size of the crop, aiImageSize the
\* dimensions measured from the encoded image (which the reply reports
\* too), timestamp the time of the write.  Nothing of an earlier record of
\* w is left in it, and no other record changes.
C21_MetadataWrittenOnCapture ==
    [][(WindowCaptureStep /\ HasImage(ret'))
       => LET w == Target(call'.params)
              bounds == windows[w].bounds
          IN /\ w \in DOMAIN store'
             /\ DOMAIN store'[w] = {"windowId", "originalLogicalSize",
                                    "originalPhysicalSize", "aiImageSize", "timestamp"}
             /\ store'[w].windowId = w
             /\ store'[w].originalLogicalSize = Size(bounds.width, bounds.height)
             /\ store'[w].aiImageSize = Measured(log')
             /\ store'[w].aiImageSize = ret'.content.image
             /\ store'[w].timestamp = now
             /\ \A v \in DOMAIN store' \ {w} : v \in DOMAIN store /\ store'[v] = store[v]]_vars

\* C21 happens: window 1, selected by title and as large as the screen, was
\* captured at a later time than its earlier record; the record is the new
\* one, and its aiImageSize is the measured 1152x720, not the resize target
\* of 1280x720
C21_MeasuredSizeRecorded ==
    /\ call.op = "window_capture"
    /\ call.params = ByTitle(<<"C", "A", "L">>)
    /\ HasImage(ret)
    /\ now > 0
    /\ store[1].timestamp = now
    /\ store[1].originalLogicalSize = Size(1440, 900)
    /\ store[1].aiImageSize = Size(1152, 720)
    /\ \E i \in DOMAIN log : log[i] = Ev("resize", "", 1280, 720)

\* the size is within the cap of 1280x720
WithinCap(size) == size.width <= 1280 /\ size.height <= 720

\* the records of the store that a window capture wrote
CaptureRecords == {w \in DOMAIN store : "originalPhysicalSize" \in DOMAIN store[w]}

\* C22: downscale cap invariant.  In every reachable state every metadata
\* record written by a capture has aiImageSize.width <= 1280 and
\* aiImageSize.height <= 720 whenever the source was at least 2 pixels on
\* some axis: the records of window captures (source: the crop) and the
\* record of the last screen capture (source: the screenshot).
C22_DownscaleCap ==
    /\ \A w \in CaptureRecords :
         (store[w].originalPhysicalSize.width >= 2
            \/ store[w].originalPhysicalSize.height >= 2)
         => WithinCap(store[w].aiImageSize)
    /\ (/\ lastScreenCapture # NoCapture
        /\ (lastScreenCapture.originalSize.width >= 2
              \/ lastScreenCapture.originalSize.height >= 2))
       => WithinCap(lastScreenCapture.aiImageSize)

\* C22 happens: a window as large as a Retina screen was captured, half of
\* its crop of 2880x1800 is larger than the cap, and its record's
\* aiImageSize is 1152x720; the record of a screen capture is there as well
C22_CapBinds ==
    /\ 1 \in CaptureRecords
    /\ store[1].originalPhysicalSize = Size(2880, 1800)
    /\ store[1].aiImageSize = Size(1152, 720)
    /\ lastScreenCapture # NoCapture
    /\ WithinCap(lastScreenCapture.aiImageSize)

\* the rectangle may be cut out of an image of the given size
ValidCrop(r, image) ==
    /\ r.x1 >= 0
    /\ r.y1 >= 0
    /\ r.x2 <= image.width
    /\ r.y2 <= image.height
    /\ r.x2 - r.x1 > 0
    /\ r.y2 - r.y1 > 0

\* the invocation went past the screen grab
Grabbed(l, r) ==
    /\ EventsAt(l, {"grab"}) # {}
    /\ ~(IsFalse(r) /\ r.error.msg = "Screenshot failed")

\* what C23 says of a window_capture that grabbed a screenshot of size image
\* for a window at bounds: the crop is made of the valid rectangle, or else
\* not at all
CropValidated(bounds, image, l, r, before, after) ==
    LET rect == ScaledRect(bounds, image)
    IN IF ValidCrop(rect, image)
         THEN \E i \in EventsAt(l, {"crop"}) :
                l[i] = Ev("crop", "", rect.x2 - rect.x1, rect.y2 - rect.y1)
         ELSE /\ IsFalse(r)
              /\ r.error.msg = "Window bounds exceed screenshot dimensions"
              /\ r.error.nums = <<rect.x1, rect.y1, rect.x2, rect.y2,
                                  image.width, image.height>>
              /\ EventsAt(l, {"crop", "resize", "encode", "toBuffer"}) = {}
              /\ after = before

Running(p) == inflight'[p] # inflight[p]

\* the records of the windows other than w are what they were
OthersKept(w) ==
    \A v \in WinIds \ {w} :
      /\ v \in DOMAIN store' <=> v \in DOMAIN store
      /\ v \in DOMAIN store => store'[v] = store[v]

\* C24: whatever the interleaving of window_capture and mouse_move
\* invocations, a segment of an invocation on window A leaves the record of
\* every other window as it was, and a step that changes the store leaves
\* for A the record that the writing invocation produced; so each window
\* ends with the record of the last write for it
C24_WritesKeyedByWindow ==
    [][\A p \in Procs :
         Running(p) =>
           /\ OthersKept(inflight[p].windowId)
           /\ store' # store =>
                store'[inflight[p].windowId] = inflight'[p].metadata]_vars

\* C24 happens: a capture of window 1 and a mouse_move on window 2 have
\* both replied, and the store holds the measured record of the one and
\* the basic record of the other
C24_BothRecordsKept ==
    /\ inflight[1].op = "window_capture" /\ inflight[1].windowId = 1
    /\ inflight[2].op = "mouse_move" /\ inflight[2].windowId = 2
    /\ inflight[1].pc = "done" /\ inflight[2].pc = "done"
    /\ DOMAIN store = {1, 2}
    /\ store[1] = inflight[1].metadata /\ 1 \in CaptureRecords
    /\ store[2] = inflight[2].metadata /\ 2 \notin CaptureRecords

\* invocation p is a mouse_click between its move and its click
BetweenMoveAndClick(p) == inflight[p].op = "mouse_click" /\ inflight[p].pc = "settle"

\* C25: nothing holds the pointer for a mouse_click between its move and
\* its click: while one invocation waits its 50 ms, the move of another
\* invocation that has reached its conversion can run, so a click can land
\* where the other invocation put the pointer
C25_NoMutualExclusion ==
    \A p \in Procs, q \in Procs :
      (p # q /\ BetweenMoveAndClick(p) /\ inflight[q].pc = "transform")
        => ENABLED MoveTransform(q)

\* C25 happens: two mouse_click invocations with different coordinates; the
\* first has clicked, not at the point it resolved and moved to, but at the
\* point the second one resolved
C25_ClickAtOthersPoint ==
    /\ inflight[1].op = "mouse_click" /\ inflight[2].op = "mouse_click"
    /\ inflight[1].pc = "done" /\ Truthy(inflight[1].ret)
    /\ inflight[2].pc \in {"settle", "done"}
    /\ inflight[1].moved # inflight[2].moved
    /\ inflight[1].clickedAt = inflight[2].moved

\* C26: a failed capture leaves the metadata store unchanged.  Whenever an
\* invocation of window_capture returns {success: false, ...} (window not
\* found, no window list, focus failure, invalid bounds, secondary display,
\* failed grab, crop outside the screenshot, failed encode, payload over
\* 300 KB), the store after the call is the store before it, for every
\* window id
C26_FailedCaptureKeepsStore ==
    [][(WindowCaptureStep /\ IsFalse(ret')) => store' = store]_vars

\* C26 happens: window 1 has a record from an earlier capture, and a later
\* capture of it went through the grab, the crop and the encode and was
\* refused for its size
C26_RefusedAfterEncode ==
    /\ call.op = "window_capture"
    /\ IsFalse(ret)
    /\ ret.error.msg = "Window capture too large (max 300KB)"
    /\ EventsAt(log, {"toBuffer"}) # {}
    /\ 1 \in CaptureRecords

\* C27 as stated: under any interleaving of a window_capture and a
\* mouse_move on the same window, a measured record that window_capture has
\* stored is not replaced by a synthesized 1:1 record while it is within
\* its 5 minutes
C27_CaptureRecordKept ==
    [][\A w \in CaptureRecords :
         Fresh(store[w]) => "originalPhysicalSize" \in DOMAIN store'[w]]_vars

\* where C27 fails: the capture of window 1 has replied with its image,
\* measured at 1152x720 for the 1440x900 window, and the store holds for
\* the window a 1:1 record written after it by a mouse_move that had looked
\* the store up before the capture wrote
C27_MeasuredRecordClobbered ==
    \E p \in Procs, q \in Procs :
      /\ inflight[p].op = "window_capture" /\ inflight[p].windowId = 1
      /\ inflight[p].pc = "done" /\ HasImage(inflight[p].ret)
      /\ inflight[p].metadata.aiImageSize = Size(1152, 720)
      /\ inflight[q].op = "mouse_move" /\ inflight[q].windowId = 1
      /\ inflight[q].pc = "transform"
      /\ store[1] = inflight[q].metadata
      /\ store[1].aiImageSize = Size(1440, 900)
      /\ Fresh(inflight[p].metadata)

\* mouse_move({x, y, windowId: 1, debug})
MoveParams(pt, debug) == [x |-> pt[1], y |-> pt[2], windowId |-> 1, debug |-> debug]

\* where the next mouse_move to AI point pt of window 1 sends the pointer,
\* the metadata store being records
NextDestination(records, pt) ==
    mouse_move([St0 EXCEPT !.store = records], MoveParams(pt, FALSE), Nominal).st.pointer

\* the run that took the step with the debug flag, and the run plain that
\* starts from the same state without it: the pointer is at the same place
\* after the call, and goes to the same place in the mouse_move that follows
SameDestinations(plain, pt) ==
    /\ pointer' = plain.st.pointer
    /\ NextDestination(store', pt) = NextDestination(plain.st.store, pt)

\* a step that is a mouse_move on window 1 with the debug flag, which got
\* as far as moving the pointer
DebugMoveStep ==
    /\ MouseMoveStep
    /\ call'.params.windowId = 1
    /\ call'.params.debug
    /\ EventsAt(log', {"moveMouse"}) # {}

\* C28 as stated: two runs from the same state, with the same window and
\* the same AI coordinates, that differ only in the debug flag of a
\* mouse_move, send the pointer to the same place in that mouse_move and in
\* the mouse_move after it
C28_DebugFlagIrrelevant ==
    [][DebugMoveStep =>
         SameDestinations(mouse_move(St0, [call'.params EXCEPT !.debug = FALSE], Nominal),
                          <<37, 25>>)]_vars

\* where C28 fails: a mouse_move with the debug flag has replied and has
\* left, through its debug capture of the window, a measured record of
\* 400x300 for the 800x600 window; the next mouse_move to (37, 25) goes
\* elsewhere than with the 1:1 record that the same call without the flag
\* leaves
C28_DebugCaptureRescaled ==
    /\ call.op = "mouse_move" /\ call.params.debug /\ call.params.windowId = 1
    /\ 1 \in CaptureRecords
    /\ store[1].timestamp = now
    /\ store[1].aiImageSize = Size(400, 300)
    /\ NextDestination(store, <<37, 25>>)
         # Transform(37, 25, BasicMetadata(1, windows[1].bounds), windows[1].bounds)

\* window_capture refused the window as being on a secondary display
RejectedAsSecondary(r) ==
    /\ IsFalse(r)
    /\ r.error.msg = "Window capture on secondary displays is not yet implemented"

\* the entry of list_windows for a window, the reply of window_capture for
\* it and the effects of move_window_to_primary_screen on it tell the same
ChecksAgree(listed, captured, moves) ==
    /\ listed.isOnPrimaryDisplay = FALSE <=> RejectedAsSecondary(captured)
    /\ listed.isOnPrimaryDisplay = FALSE <=> EventsAt(moves, {"moveWindow"}) # {}
    /\ listed.isOnPrimaryDisplay <=> listed.displayLocation = "primary"
    /\ RejectedAsSecondary(captured) => captured.error.s = listed.displayLocation
    /\ listed.displayLocation # "secondary-unknown"

\* C29: the three primary-display checks agree.  For a window with bounds
\* of positive width and height, its window list available and the focus
\* succeeding, list_windows reports isOnPrimaryDisplay false exactly when
\* window_capture refuses it as being on a secondary display and exactly
\* when move_window_to_primary_screen asks for a move; the displayLocation
\* of list_windows is the location named in window_capture's error, and it
\* is never 'secondary-unknown'
C29_PrimaryChecksAgree ==
    (windows[1].bounds.width > 0 /\ windows[1].bounds.height > 0) =>
      ChecksAgree(list_windows(St0, Nominal).ret.result[1],
                  window_capture(St0, ById(1), Nominal).ret,
                  move_window_to_primary_screen(
                      St0, [windowId |-> 1, preserveSize |-> FALSE], Nominal).st.log)

\* C29 happens: the window's origin is past the right edge and above the
\* top edge of the primary display, and list_windows has reported it as
\* 'secondary-right', not on the primary display
C29_ListedRightOfPrimary ==
    /\ windows[1].bounds = Rect(1440, -5, 800, 600)
    /\ call.op = "list_windows"
    /\ Truthy(ret)
    /\ ret.result[1].isOnPrimaryDisplay = FALSE
    /\ ret.result[1].displayLocation = "secondary-right"
    /\ RejectedAsSecondary(window_capture(St0, ById(1), Nominal).ret)

\* the positions in log l at which a button or a key goes down, and up
Downs(l) == {i \in DOMAIN l : l[i].ev \in {"mouseToggle", "keyToggle"} /\ l[i].a = 1}
Ups(l) == {i \in DOMAIN l : l[i].ev \in {"mouseToggle", "keyToggle"} /\ l[i].a = 0}

\* the down at position i of log l is released at position j: the same
\* call, the same button or key, and the hold of pressLength between them
Releases(l, i, j, pressLength) ==
    /\ j > i
    /\ l[j].ev = l[i].ev
    /\ l[j].s = l[i].s
    /\ pressLength > 0 =>
         \E k \in DOMAIN l : i < k /\ k < j /\ l[k] = Ev("delay", "", pressLength, 0)

\* C30: no stuck button or key.  In every invocation of mouse_click and of
\* keyboard_press, whatever its pressLength, each button-down or key-down
\* that was injected is followed in the same invocation, after the hold of
\* pressLength when there is one, by the up of the same button or key, and
\* each up releases a down; so with pressLength 0 no down is left unmatched
\* either
C30_NoStuckButtonOrKey ==
    call.op \in {"mouse_click", "keyboard_press"} =>
      /\ \A i \in Downs(log) :
           \E j \in Ups(log) : Releases(log, i, j, call.params.pressLength)
      /\ \A j \in Ups(log) :
           \E i \in Downs(log) : Releases(log, i, j, call.params.pressLength)
      /\ Cardinality(Downs(log)) <= 1

\* C30 happens: a mouse_click that holds the left button for 250 ms has
\* replied; the button went down, the 250 ms passed, the button went up
C30_HeldButtonReleased ==
    /\ call.op = "mouse_click"
    /\ call.params.pressLength = 250
    /\ Truthy(ret)
    /\ \E i \in DOMAIN log :
         /\ i + 2 = Len(log)
         /\ log[i] = Ev("mouseToggle", "left", 1, 0)
         /\ log[i + 1] = Ev("delay", "", 250, 0)
         /\ log[i + 2] = Ev("mouseToggle", "left", 0, 0)

=============================================================================
